---------------------------- MODULE Spec2Model ----------------------------
(***************************************************************************)
(* State-machine model of the agent comparison pipeline of voicesummary:   *)
(*   - ConversationSimulator.simulate and its hangup oracle                *)
(*       (app/utils/conversation_simulator.py)                             *)
(*   - ComparisonOrchestrator (app/utils/comparison_orchestrator.py)       *)
(*   - the execute endpoint's background task (app/api/agent_comparison.py)*)
(*                                                                         *)
(* Conventions.                                                            *)
(*   Optional values: None is <<>> and a present value x is <<x>>.         *)
(*   Judge scores are integers 0..10.  overall_accuracy (0..1 in the code) *)
(*   is held in tenths, composite scores (two decimals in the code) in     *)
(*   hundredths.  Latencies are whole milliseconds.                        *)
(*   asyncio runs one coroutine at a time and switches only at an await,   *)
(*   so one action is the code between two awaits that return to the       *)
(*   event loop (LLM request, semaphore, gather, a database call handed to *)
(*   a thread).  Database calls are taken to succeed; the synchronous ones *)
(*   are folded into the step that issues them.                            *)
(***************************************************************************)
EXTENDS Integers, Sequences, FiniteSets, TLC

(* ------------------------------ bounds -------------------------------- *)

\* num_simulations of the comparison under check
NumSimulations == 2

\* settings.max_concurrent_simulations
MaxConcurrent == 1

\* settings.max_conversation_turns
SettingsMaxTurns == 2

\* largest max_turns the stand-alone simulation is run with
SimMaxTurns == 3

\* the requested agents, in the order of agent_ids
AgentOrder == <<"a1", "a2">>

Agents == {AgentOrder[i] : i \in 1..Len(AgentOrder)}

Tasks == Agents \X (1..NumSimulations)

(* ------------------------------ helpers ------------------------------- *)

None == <<>>

Some(x) == <<x>>

\* dict.get-style default for an optional value
OrElse(opt, default) == IF opt = None THEN default ELSE opt[1]

RECURSIVE SumSeq(_)
SumSeq(s) == IF s = <<>> THEN 0 ELSE Head(s) + SumSeq(Tail(s))

\* round(n / d, k) of an exact non-negative rational, as an integer count
\* of the last kept decimal; n is already scaled by 10^k.  It is used where
\* the quotient is never half-way between two such counts (the composite
\* score: a whole number of weights 1, 3, ..., 10 under 100 * a whole sum).
RoundDiv(n, d) ==
    LET q == n \div d
        r == n % d
    IN  IF 2 * r > d THEN q + 1
        ELSE IF 2 * r < d THEN q
        ELSE IF q % 2 = 0 THEN q ELSE q + 1

\* ascending insertion sort of a sequence of integers
RECURSIVE InsertSorted(_, _)
InsertSorted(sorted, x) ==
    IF sorted = << >> THEN << x >>
    ELSE IF x < Head(sorted) THEN << x >> \o sorted
    ELSE << Head(sorted) >> \o InsertSorted(Tail(sorted), x)

RECURSIVE SortedInts(_)
SortedInts(s) ==
    IF s = << >> THEN << >>
    ELSE InsertSorted(SortedInts(Tail(s)), Head(s))

(* ------------------------ binary doubles (float) ----------------------- *)

\* The code's statistics are IEEE doubles.  A double standing for the
\* non-negative rational num/den is held as [num, den, off]: with
\* 2^e <= num/den < 2^(e+1) and h = 2^(e-53), half a unit in the last place
\* of num/den, the double is (floor(num / (den * h)) + off) * h.  Zero is
\* [0, den, 0].  Every double within a few units of num/den is such a
\* point, and a sum or a quotient is rounded exactly from remainders modulo
\* small multiples of den.

\* F of the value of e, the value being worked out once however often F
\* uses it
Bind(e, F(_)) == CHOOSE r \in {F(v) : v \in {e}} : TRUE

RECURSIVE Pow2(_)
Pow2(k) == IF k = 0 THEN 1 ELSE 2 * Pow2(k - 1)

RECURSIVE Log2Up(_, _)
Log2Up(p, q) == IF 2 * q <= p THEN 1 + Log2Up(p, 2 * q) ELSE 0

RECURSIVE Log2Down(_, _)
Log2Down(p, q) == IF p < q THEN Log2Down(2 * p, q) - 1 ELSE 0

\* e with 2^e <= p/q < 2^(e+1), for p > 0
Exponent(p, q) == IF p >= q THEN Log2Up(p, q) ELSE Log2Down(p, q)

\* 2^k mod m by squaring, for a modulus whose square is a machine integer
RECURSIVE Pow2ModSquaring(_, _)
Pow2ModSquaring(k, m) ==
    IF k = 0 THEN 1 % m
    ELSE LET h == Pow2ModSquaring(k \div 2, m)
         IN  IF k % 2 = 0 THEN (h * h) % m ELSE (2 * ((h * h) % m)) % m

\* (p * 2^k) mod m by doubling
RECURSIVE MulPow2ModDoubling(_, _, _)
MulPow2ModDoubling(p, k, m) ==
    IF k = 0 THEN p % m ELSE (2 * MulPow2ModDoubling(p, k - 1, m)) % m

\* (p * 2^k) mod m
MulPow2Mod(p, k, m) ==
    IF m <= 46340 THEN ((p % m) * Pow2ModSquaring(k, m)) % m
    ELSE MulPow2ModDoubling(p, k, m)

\* p/q is a power of two
RECURSIVE IsPow2(_, _)
IsPow2(p, q) ==
    IF p = q THEN TRUE
    ELSE IF p > q THEN p % 2 = 0 /\ IsPow2(p \div 2, q)
    ELSE q % 2 = 0 /\ IsPow2(p, q \div 2)

\* where p/q lies on the grid of h, for p > 0: k with h = 2^-k, and rem, m
\* with p/q = (f + rem/q) * h for a whole number f that is m modulo 4
Grid(p, q) ==
    LET k == 53 - Exponent(p, q)
        r == MulPow2Mod(p, k, 4 * q)
    IN  [k |-> k, rem |-> r % q, m |-> r \div q]

\* round-to-nearest, ties-to-even, of the exact value (f + tnum / tden) * h
\* near p/q, whose grid is g: the off of the nearest double.  Doubles of the
\* binade of p/q are the even points of the grid of h; just under a power
\* of two every point is a double.
RoundToDouble(p, q, g, tnum, tden) ==
    LET cf == tnum \div tden
        lo == IF (g.m + cf) % 2 = 0 THEN cf ELSE cf - 1
        d == tnum - (lo + 1) * tden
        r2 == 2 * (tnum - cf * tden)
    IN  IF tnum < 0 /\ IsPow2(p, q)
        THEN IF r2 < tden THEN cf
             ELSE IF r2 > tden THEN cf + 1
             ELSE IF (g.m + cf) % 2 = 0 THEN cf ELSE cf + 1
        ELSE IF d < 0 THEN lo
             ELSE IF d > 0 THEN lo + 2
             ELSE IF (g.m + lo) % 4 = 0 THEN lo ELSE lo + 2

\* the off of the double nearest to p/q
NearestOff(p, q) ==
    IF p = 0 THEN 0
    ELSE LET g == Grid(p, q) IN RoundToDouble(p, q, g, g.rem, q)

\* the double nearest to p/q: a literal, a rounded decimal, or p / q of two
\* whole numbers.  A double is held as the rational num/den it stands for,
\* its distance off from it in steps of h, and the grid g of num/den.
DoubleOf(p, q) ==
    IF p = 0 THEN [num |-> 0, den |-> q, off |-> 0, g |-> [k |-> 0, rem |-> 0, m |-> 0]]
    ELSE LET g == Grid(p, q)
         IN  [num |-> p, den |-> q, off |-> RoundToDouble(p, q, g, g.rem, q), g |-> g]

ZeroDouble(q) == DoubleOf(0, q)

\* x + y of two doubles over the same denominator
DoubleAdd(x, y) ==
    Bind(<< x, y >>, LAMBDA xy :
        IF xy[1].num = 0 THEN xy[2]
        ELSE IF xy[2].num = 0 THEN xy[1]
        ELSE Bind(Grid(xy[1].num + xy[2].num, xy[1].den), LAMBDA g :
            LET q == xy[1].den
                p == xy[1].num + xy[2].num
                gx == xy[1].g
                gy == xy[2].g
                dx == gx.k - g.k
                dy == gy.k - g.k
                dm == IF dx > dy THEN dx ELSE dy
                tnum == g.rem * Pow2(dm)
                        + (q * xy[1].off - gx.rem) * Pow2(dm - dx)
                        + (q * xy[2].off - gy.rem) * Pow2(dm - dy)
            IN  [num |-> p, den |-> q,
                 off |-> RoundToDouble(p, q, g, tnum, q * Pow2(dm)), g |-> g]))

\* x / n of a double by a whole number
DoubleDiv(x, n) ==
    Bind(<< x, n >>, LAMBDA xn :
        IF xn[1].num = 0 THEN ZeroDouble(xn[1].den * xn[2])
        ELSE Bind(Grid(xn[1].num, xn[1].den * xn[2]), LAMBDA g :
            LET p == xn[1].num
                q == xn[1].den
                gx == xn[1].g
                tnum == g.rem + (q * xn[1].off - gx.rem) * Pow2(g.k - gx.k)
            IN  [num |-> p, den |-> q * xn[2],
                 off |-> RoundToDouble(p, q * xn[2], g, tnum, q * xn[2]), g |-> g]))

\* how far a double lies from the double nearest to num/den, in steps of h
DoubleErr(x) ==
    Bind(x, LAMBDA d :
        IF d.num = 0 THEN d.off
        ELSE d.off - RoundToDouble(d.num, d.den, d.g, d.g.rem, d.den))

(* ------------------- times in seconds, held as doubles ------------------ *)

\* The voice analyzer computes with times in seconds held in doubles.  A
\* time is the whole number ms of milliseconds it stands for and its err:
\* the double lying err steps of h above the double nearest to ms/1000.
\* A frame time, a total_seconds() and a literal have err 0.  With ms = 0,
\* err is the sign of a difference of two doubles that stand for the same
\* instant: 0.0, or a value nearer to 0 than any threshold.
TimeOf(ms) == [ms |-> ms, err |-> 0]

Sign(n) == IF n > 0 THEN 1 ELSE IF n < 0 THEN -1 ELSE 0

TimeNeg(t) == [ms |-> -t.ms, err |-> -t.err]

\* x < y of two doubles
TimeLess(x, y) == x.ms < y.ms \/ (x.ms = y.ms /\ x.err < y.err)

\* x <= y of two doubles
TimeLeq(x, y) == ~TimeLess(y, x)

\* abs(t)
TimeAbs(t) == IF TimeLess(t, TimeOf(0)) THEN TimeNeg(t) ELSE t

\* the double of a time above 0
TimeDouble(t) ==
    LET g == Grid(t.ms, 1000)
    IN  [num |-> t.ms, den |-> 1000,
         off |-> RoundToDouble(t.ms, 1000, g, g.rem, 1000) + t.err, g |-> g]

\* x - y of two doubles over one denominator, x.num > y.num > 0: the exact
\* difference, in steps of the result's h, rounded to the nearest double
DoubleSub(x, y) ==
    Bind(<< x, y >>, LAMBDA xy :
        Bind(Grid(xy[1].num - xy[2].num, xy[1].den), LAMBDA g :
            LET q == xy[1].den
                p == xy[1].num - xy[2].num
                gx == xy[1].g
                gy == xy[2].g
                dx == gx.k - g.k
                dy == gy.k - g.k
                dm == IF dy > 0 THEN dy ELSE 0
                tnum == g.rem * Pow2(dm)
                        + (q * xy[1].off - gx.rem) * Pow2(dm - dx)
                        - (q * xy[2].off - gy.rem) * Pow2(dm - dy)
            IN  [num |-> p, den |-> q,
                 off |-> RoundToDouble(p, q, g, tnum, q * Pow2(dm)), g |-> g]))

\* x + y in doubles, of two times x, y >= 0
TimeAdd(x, y) ==
    IF x.ms = 0 THEN y
    ELSE IF y.ms = 0 THEN x
    ELSE LET d == DoubleAdd(TimeDouble(x), TimeDouble(y))
         IN  [ms |-> d.num, err |-> DoubleErr(d)]

\* x - y in doubles, of two times x, y >= 0
RECURSIVE TimeSub(_, _)
TimeSub(x, y) ==
    IF y.ms = 0 THEN x
    ELSE IF x.ms = 0 THEN TimeNeg(y)
    ELSE IF x.ms = y.ms THEN [ms |-> 0, err |-> Sign(x.err - y.err)]
    ELSE IF x.ms < y.ms THEN TimeNeg(TimeSub(y, x))
    ELSE LET d == DoubleSub(TimeDouble(x), TimeDouble(y))
         IN  [ms |-> d.num, err |-> DoubleErr(d)]

\* round(x, ndigits) of the double [num, den, off], as a whole count of
\* 1/scale with scale = 10^ndigits: Python rounds the double's exact value,
\* so a decimal tie of num/den is settled by the side of it the double lies
\* on, and goes to the even count only when the double is the tie itself
RoundDouble(num, den, off, scale) ==
    LET q == (scale * num) \div den
        r == (scale * num) % den
        side == den * off - Grid(num, den).rem
    IN  IF 2 * r < den THEN q
        ELSE IF 2 * r > den THEN q + 1
        ELSE IF side > 0 THEN q + 1
        ELSE IF side < 0 THEN q
        ELSE IF q % 2 = 0 THEN q ELSE q + 1

\* res = 0.; for v in values: res += v
RECURSIVE SumInOrder(_, _)
SumInOrder(res, values) ==
    IF values = << >> THEN res
    ELSE SumInOrder(DoubleAdd(res, Head(values)), Tail(values))

\* the eight running sums of numpy's unrolled loop: r[j] += a[i + j]
RECURSIVE SumBlocks(_, _, _, _)
SumBlocks(r, a, i, stop) ==
    IF i >= stop THEN r
    ELSE SumBlocks([j \in 1..8 |-> DoubleAdd(r[j], a[i + j])], a, i + 8, stop)

\* np.add.reduce over a contiguous array of doubles (numpy's pairwise sum):
\* in order under 8 values; eight running sums, joined in pairs, then the
\* rest in order, up to 128 values; above that the two halves, the first
\* cut to a multiple of 8
RECURSIVE PairwiseSum(_)
PairwiseSum(a) ==
    LET n == Len(a)
    IN  IF n < 8 THEN SumInOrder(ZeroDouble(IF n = 0 THEN 1 ELSE a[1].den), a)
        ELSE IF n <= 128
        THEN LET stop == n - (n % 8)
                 r == SumBlocks([j \in 1..8 |-> a[j]], a, 8, stop)
                 res == DoubleAdd(DoubleAdd(DoubleAdd(r[1], r[2]), DoubleAdd(r[3], r[4])),
                                  DoubleAdd(DoubleAdd(r[5], r[6]), DoubleAdd(r[7], r[8])))
             IN  SumInOrder(res, SubSeq(a, stop + 1, n))
        ELSE LET n2 == (n \div 2) - ((n \div 2) % 8)
             IN  DoubleAdd(PairwiseSum(SubSeq(a, 1, n2)), PairwiseSum(SubSeq(a, n2 + 1, n)))

\* np.mean of whole counts of 1/unit: the pairwise sum divided by the length
DoubleMean(values, unit) ==
    Bind([i \in 1..Len(values) |-> DoubleOf(values[i], unit)],
         LAMBDA a : DoubleDiv(PairwiseSum(a), Len(a)))

\* calculate_percentiles(...)["median"] over latencies in whole
\* milliseconds: 0.0 for no latency, else round(np.median, 3) of the
\* latencies in seconds: the middle value, or the mean of the two middle
\* values; the result is a whole number of milliseconds
LatencyMedian(latencies) ==
    LET n == Len(latencies)
        v == SortedInts(latencies)
    IN  IF n = 0 THEN 0
        ELSE IF n % 2 = 1 THEN v[(n + 1) \div 2]
        ELSE LET a == v[n \div 2]
                 b == v[n \div 2 + 1]
             IN  RoundDouble(a + b, 2000, DoubleMean(<< a, b >>, 1000).off, 1000)

\* calculate_percentiles(...)["p99"] over latencies in whole milliseconds:
\* 0.0 for no latency, else round(np.percentile(., 99), 3) of the latencies
\* in seconds.  The percentile lies g/100 of the way from the sorted value
\* at index lo = (99 (n - 1)) div 100 to the next one, g = (99 (n - 1)) mod
\* 100; the rounding errors of the interpolation are far below half a
\* millisecond, so they decide the result only when the percentile lies
\* midway between two whole milliseconds.  There the interpolation formula
\* of the installed numpy (which is not pinned) decides, and either
\* neighbour can be the result.
LatencyP99s(latencies) ==
    LET n == Len(latencies)
        v == SortedInts(latencies)
        lo == (99 * (n - 1)) \div 100
        g == (99 * (n - 1)) % 100
        a == v[lo + 1]
        b == v[IF lo + 2 <= n THEN lo + 2 ELSE lo + 1]
        hundredths == 100 * a + g * (b - a)
        q == hundredths \div 100
        r == hundredths % 100
    IN  IF n = 0 THEN {0}
        ELSE IF r < 50 THEN {q}
        ELSE IF r > 50 THEN {q + 1}
        ELSE {q, q + 1}

(* ----------------- ConversationSimulator (one simulation) -------------- *)

\* NextIteration with the loop running one iteration too many
NextIterationOffByOne(s) ==
    IF s.turn_num <= s.max_turns
    THEN [s EXCEPT !.turn_num = @ + 1, !.at = "user"]
    ELSE [s EXCEPT !.at = "returned"]

\* the loop "for turn_num in range(1, effective_max_turns + 1)" moves to
\* its next iteration, or falls through to the result when it is exhausted
NextIteration(s) ==
    IF s.turn_num < s.max_turns
    THEN [s EXCEPT !.turn_num = @ + 1, !.at = "user"]
    ELSE [s EXCEPT !.at = "returned"]

\* simulate() from its entry to the first await: the welcome turn, the
\* default hangup_reason and the effective turn limit
NewSimulation(agent_config, max_turns) ==
    LET effective == OrElse(max_turns, SettingsMaxTurns)
        welcome == IF agent_config.welcome_message
                   THEN << [role |-> "AGENT", latency_ms |-> 0] >>
                   ELSE << >>
    IN  [ transcript     |-> welcome,
          latencies      |-> << >>,
          hangup_reason  |-> "max_turns_reached",
          max_turns      |-> effective,
          hangup_prompt  |-> agent_config.hangup_prompt,
          turn_num       |-> IF effective >= 1 THEN 1 ELSE 0,
          at             |-> IF effective >= 1 THEN "user" ELSE "returned" ]

\* CheckHangup with the except branch answering True
CheckHangupFailOpen(hangup_prompt, reply) ==
    IF ~hangup_prompt THEN FALSE
    ELSE IF reply.kind \in {"call_failed", "no_content"} THEN TRUE
    ELSE IF reply.kind = "json_object" THEN reply.value \in {"yes", "true", "1"}
    ELSE IF reply.kind = "json_other" THEN FALSE
    ELSE reply.keyword

\* The hangup oracle's decision on the reply of its LLM call.
\*   kind "call_failed": the request raised;  "no_content": content is None
\*   kind "json_object": json.loads gave a dict, whose "hangup" entry is value
\*   kind "json_other":  json.loads gave a non-dict (a string, number, list)
\*   kind "text":        json.loads raised JSONDecodeError
\*   keyword: the text contains one of yes / hang up / end call / terminate
CheckHangup(hangup_prompt, reply) ==
    IF ~hangup_prompt THEN FALSE
    ELSE IF reply.kind \in {"call_failed", "no_content"} THEN FALSE
    ELSE IF reply.kind = "json_object" THEN reply.value \in {"yes", "true", "1"}
    ELSE IF reply.kind = "json_other" THEN FALSE
    ELSE reply.keyword

\* step 5 of an iteration, after _check_hangup returned should_hangup
HangupChecked(s, should_hangup) ==
    IF should_hangup
    THEN [s EXCEPT !.hangup_reason = "hangup_logic_triggered", !.at = "returned"]
    ELSE NextIteration(s)

\* UserTurnGenerated with the null user message appended as a turn before
\* the loop is left
UserTurnGeneratedNullAppended(s, user_msg) ==
    IF user_msg = None
    THEN [s EXCEPT !.transcript = Append(@, [role |-> "USER"]),
                   !.hangup_reason = "user_simulator_ended", !.at = "returned"]
    ELSE [s EXCEPT !.transcript = Append(@, [role |-> "USER"]),
                   !.at = "agent"]

\* steps 1-2 of an iteration: the user-turn generator returned user_msg
\* (None is the CONVERSATION_COMPLETE signal)
UserTurnGenerated(s, user_msg) ==
    IF user_msg = None
    THEN [s EXCEPT !.hangup_reason = "user_simulator_ended", !.at = "returned"]
    ELSE [s EXCEPT !.transcript = Append(@, [role |-> "USER"]),
                   !.at = "agent"]

\* steps 3-4 of an iteration: the agent LLM answered after latency_ms; with
\* an empty hangup prompt _check_hangup returns False without awaiting
AgentResponded(s, latency_ms) ==
    LET t == [s EXCEPT !.transcript =
                            Append(@, [role |-> "AGENT", latency_ms |-> latency_ms]),
                       !.latencies = Append(@, latency_ms)]
    IN  IF s.hangup_prompt
        THEN [t EXCEPT !.at = "hangup"]
        ELSE HangupChecked(t, CheckHangup(FALSE, [kind |-> "call_failed"]))

UserTurns(transcript) ==
    Cardinality({i \in 1..Len(transcript) : transcript[i].role = "USER"})

\* the dictionary simulate() returns
SimulationResult(s) ==
    [ transcript    |-> s.transcript,
      latencies     |-> s.latencies,
      total_turns   |-> UserTurns(s.transcript),
      hangup_reason |-> s.hangup_reason ]

(* ------------------- TurnAccuracyValidator (the judge) ----------------- *)

\* what _validate_conversation_comprehensive falls back to
DefaultComprehensiveResult ==
    [accuracy |-> Some(5), humanlike |-> Some(5), outcome |-> Some(5)]

\* a value of the judge's JSON object that is present but is no number, as
\* the string "high": it is not None, and arithmetic on it raises TypeError
Text(s) == << "str", s >>

IsText(v) == Len(v) = 2

\* The judge's reply.  kind "scores": the JSON object holds the three keys
\* (a value may be JSON null, or no number: the keys are only looked for);
\* kind "failed": the call raised, was refused, did not parse or lacked a key
ValidateConversationComprehensive(reply) ==
    IF reply.kind = "scores"
    THEN [accuracy |-> reply.accuracy, humanlike |-> reply.humanlike,
          outcome |-> reply.outcome]
    ELSE DefaultComprehensiveResult

\* validate_simulated_transcript: no judge call for an empty transcript;
\* overall_accuracy is accuracy / 10 "if result.get('accuracy')", i.e. only
\* for a truthy accuracy; humanlike and outcome are handed on as they came
ValidateSimulatedTranscript(transcript, reply) ==
    IF transcript = << >>
    THEN [humanlike_rating |-> None, overall_accuracy |-> None,
          outcome_orientation |-> None]
    ELSE LET result == ValidateConversationComprehensive(reply)
         IN  [ humanlike_rating    |-> result.humanlike,
               overall_accuracy    |-> IF result.accuracy # None /\ result.accuracy[1] # 0
                                       THEN result.accuracy ELSE None,
               outcome_orientation |-> result.outcome ]

\* what _process_simulation_result substitutes when the validator raises
ValidationFailedResults ==
    [humanlike_rating |-> None, overall_accuracy |-> None,
     outcome_orientation |-> Some(5)]

(* --------------------- ComparisonOrchestrator: scoring ----------------- *)

\* CalculateCompositeScore without the renormalisation: the weighted sum is
\* divided by the full weight whatever is missing
CalculateCompositeScoreUnnormalised(r) ==
    LET acc == IF r.overall_accuracy # None THEN 3 * r.overall_accuracy[1] ELSE 0
        hum == IF r.humanlike_rating # None THEN 3 * r.humanlike_rating[1] ELSE 0
        out == IF r.outcome_orientation # None THEN 3 * r.outcome_orientation[1] ELSE 0
        hng == IF r.total_turns # None /\ r.total_turns[1] < SettingsMaxTurns
               THEN 10 ELSE 0
    IN  RoundDiv(100 * (acc + hum + out + hng), 10)

\* _calculate_composite_score, in hundredths.  Weights 0.3/0.3/0.3/0.1 are
\* kept as 3/3/3/1; overall_accuracy in tenths is already "accuracy * 10".
\* The hangup score is judged against settings.max_conversation_turns.
CalculateCompositeScore(r) ==
    LET acc == IF r.overall_accuracy # None THEN 3 * r.overall_accuracy[1] ELSE 0
        hum == IF r.humanlike_rating # None THEN 3 * r.humanlike_rating[1] ELSE 0
        out == IF r.outcome_orientation # None THEN 3 * r.outcome_orientation[1] ELSE 0
        hng == IF r.total_turns # None /\ r.total_turns[1] < SettingsMaxTurns
               THEN 10 ELSE 0
        weighted_sum == acc + hum + out + hng
        total_weight == (IF r.overall_accuracy # None THEN 3 ELSE 0)
                        + (IF r.humanlike_rating # None THEN 3 ELSE 0)
                        + (IF r.outcome_orientation # None THEN 3 ELSE 0)
                        + (IF r.total_turns # None THEN 1 ELSE 0)
    IN  IF total_weight = 0 THEN 0
        ELSE RoundDiv(100 * weighted_sum, total_weight)

\* _calculate_composite_score raises: a rating of the run is no number
\* (humanlike_rating * 0.3, outcome_orientation * 0.3).  The Float column
\* of such a rating does not take the value either, so that the commit of
\* the run raises where the database checks it
ScoreRaises(r) == IsText(r.humanlike_rating) \/ IsText(r.outcome_orientation)

\* a run record before it is created
NoRun ==
    [status |-> "none", total_turns |-> None, latency_median |-> None,
     latency_p99 |-> None, overall_accuracy |-> None, humanlike_rating |-> None,
     outcome_orientation |-> None]

\* the run record _process_simulation_result leaves behind, latency_p99
\* being the 99th percentile calculate_percentiles returned
ProcessedRun(r, simulation_result, accuracy_results, latency_p99) ==
    [r EXCEPT !.total_turns = Some(simulation_result.total_turns),
              !.latency_median = Some(LatencyMedian(simulation_result.latencies)),
              !.latency_p99 = Some(latency_p99),
              !.overall_accuracy = accuracy_results.overall_accuracy,
              !.humanlike_rating = accuracy_results.humanlike_rating,
              !.outcome_orientation = accuracy_results.outcome_orientation,
              !.status = "completed"]

\* what _run_single_simulation hands to gather: the metrics of a completed
\* run, or the exception it raised
RunMetrics(r) ==
    [ kind                |-> "metrics",
      latency_median      |-> r.latency_median,
      latency_p99         |-> r.latency_p99,
      overall_accuracy    |-> r.overall_accuracy,
      humanlike_rating    |-> r.humanlike_rating,
      outcome_orientation |-> r.outcome_orientation,
      total_turns         |-> r.total_turns,
      composite_score     |-> Some(CalculateCompositeScore(r)) ]

RaisedException ==
    [ kind |-> "exception", latency_median |-> None, latency_p99 |-> None,
      overall_accuracy |-> None, humanlike_rating |-> None, outcome_orientation |-> None,
      total_turns |-> None, composite_score |-> None ]

(* ------------------- ComparisonOrchestrator: aggregation --------------- *)

\* float(np.mean(values)) of whole counts of 1/unit, or None for no values:
\* the double that stands for num/den (in counts of 1/unit) and lies err
\* half units in the last place from the double nearest to it
Mean(values, unit) ==
    IF values = << >> THEN None
    ELSE Some([num |-> SumSeq(values), den |-> Len(values),
               err |-> IF unit = 1 \/ Len(values) = 1
                       THEN 0   \* whole numbers add exactly, and x / 1 is x
                       ELSE IF /\ Len(values) = 2
                               /\ (values[1] = values[2] \/ 0 \in {values[1], values[2]})
                       THEN 0   \* x + x, 0. + x and a double / 2 are exact
                       ELSE DoubleErr(DoubleMean(values, unit))])

\* x < y of two such means as the doubles they are: the rationals decide,
\* and between equal rationals the distances from the nearest double
MeanLess(x, y) ==
    \/ x.num * y.den < y.num * x.den
    \/ /\ x.num * y.den = y.num * x.den
       /\ x.err < y.err

\* x == y of two such means
MeanEq(x, y) == x.num * y.den = y.num * x.den /\ x.err = y.err

\* a whole count of some unit as such a mean
Exact(k) == [num |-> k, den |-> 1, err |-> 0]

\* float(np.std(values)) of whole counts of 1/unit, or None for no values:
\* the population standard deviation, held by its square sq_num / sq_den in
\* the units of the values (np.std returns a double next to the square
\* root, which is all that is used of it: its comparison with 0.001)
Std(values, unit) ==
    IF values = << >> THEN None
    ELSE LET n == Len(values)
             squares == [i \in 1..n |-> values[i] * values[i]]
         IN  Some([sq_num |-> n * SumSeq(squares) - SumSeq(values) * SumSeq(values),
                   sq_den |-> n * n * unit * unit])

\* the present values of one metric over the results, in result order
RECURSIVE Present(_, _)
Present(results, field) ==
    IF results = << >> THEN << >>
    ELSE (IF Head(results)[field] # None THEN << Head(results)[field][1] >> ELSE << >>)
         \o Present(Tail(results), field)

IsException(r) == r.kind = "exception"

Successful(results) == SelectSeq(results, LAMBDA r : ~IsException(r))

Failed(results) == SelectSeq(results, LAMBDA r : IsException(r))

\* hangup_successes of _aggregate_simulation_results: results whose
\* total_turns (settings.max_conversation_turns when missing) is below
\* settings.max_conversation_turns
HangupSuccesses(results) ==
    Len(SelectSeq(results,
                  LAMBDA r : OrElse(r.total_turns, SettingsMaxTurns) < SettingsMaxTurns))

NoStatistics ==
    [ latency_median_mean |-> None, latency_p99_mean |-> None,
      accuracy_mean |-> None, accuracy_std |-> None,
      humanlike_mean |-> None, humanlike_std |-> None,
      outcome_mean |-> None, composite_score_mean |-> None,
      avg_turns_mean |-> None, avg_turns_std |-> None,
      hangup_success_rate |-> None ]

\* _aggregate_simulation_results over a non-empty list of metrics;
\* hangup_success_rate is round(rate, 3), in thousandths
AggregateSimulationResults(results) ==
    [ latency_median_mean  |-> Mean(Present(results, "latency_median"), 1000),
      latency_p99_mean     |-> Mean(Present(results, "latency_p99"), 1000),
      accuracy_mean        |-> Mean(Present(results, "overall_accuracy"), 10),
      accuracy_std         |-> Std(Present(results, "overall_accuracy"), 10),
      humanlike_mean       |-> Mean(Present(results, "humanlike_rating"), 1),
      humanlike_std        |-> Std(Present(results, "humanlike_rating"), 1),
      outcome_mean         |-> Mean(Present(results, "outcome_orientation"), 1),
      composite_score_mean |-> Mean(Present(results, "composite_score"), 100),
      avg_turns_mean       |-> Mean(Present(results, "total_turns"), 1),
      avg_turns_std        |-> Std(Present(results, "total_turns"), 1),
      hangup_success_rate  |->
          Some(RoundDouble(HangupSuccesses(results), Len(results),
                           NearestOff(HangupSuccesses(results), Len(results)), 1000)) ]

\* what _run_multi_simulation_for_agent returns from the gathered results
AgentAggregate(agent_id, results) ==
    LET successful == Successful(results)
        failed == Failed(results)
    IN  IF successful = << >>
        THEN [ agent_id |-> agent_id,
               total_simulations |-> NumSimulations,
               successful_simulations |-> 0,
               failed_simulations |-> NumSimulations,
               error |-> TRUE,
               stats |-> NoStatistics ]
        ELSE [ agent_id |-> agent_id,
               total_simulations |-> NumSimulations,
               successful_simulations |-> Len(successful),
               failed_simulations |-> Len(failed),
               error |-> FALSE,
               stats |-> AggregateSimulationResults(successful) ]

\* the row _store_aggregate_result adds for one returned aggregate
AggregateRow(aggregate_data) ==
    [ agent_id |-> aggregate_data.agent_id,
      total_simulations |-> aggregate_data.total_simulations,
      successful_simulations |-> aggregate_data.successful_simulations,
      failed_simulations |-> aggregate_data.failed_simulations,
      stats |-> aggregate_data.stats ]

\* the sort key of aggregate_comparison_results: composite_score_mean, 0.0
\* when it is None
CompositeKey(row) ==
    OrElse(row.stats.composite_score_mean, Exact(0))

\* what the sort key takes for a latency_median_mean of None: 999 (seconds),
\* in milliseconds
NoLatencyKey == 999000

\* LatencyKey with a missing latency counted as zero
LatencyKeyMissingAsZero(row) ==
    OrElse(row.stats.latency_median_mean, Exact(0))

\* the second component of the sort key, before its negation
LatencyKey(row) ==
    OrElse(row.stats.latency_median_mean, Exact(NoLatencyKey))

\* RanksAbove with the sort on composite_score_mean alone
RanksAboveCompositeOnly(x, y) ==
    MeanLess(CompositeKey(y), CompositeKey(x))

\* key(x) > key(y) for the descending sort on the tuple
\* (composite_score_mean, -latency_median_mean)
RanksAbove(x, y) ==
    LET cx == CompositeKey(x)
        cy == CompositeKey(y)
        lx == LatencyKey(x)
        ly == LatencyKey(y)
    IN  \/ MeanLess(cy, cx)
        \/ /\ MeanEq(cx, cy)
           /\ MeanLess(lx, ly)

\* sorted(..., reverse=True): descending and stable
RECURSIVE InsertRanked(_, _)
InsertRanked(sorted, row) ==
    IF sorted = << >> THEN << row >>
    ELSE IF RanksAbove(row, Head(sorted)) THEN << row >> \o sorted
    ELSE << Head(sorted) >> \o InsertRanked(Tail(sorted), row)

RECURSIVE SortedAggregates(_)
SortedAggregates(rows) ==
    IF rows = << >> THEN << >>
    ELSE InsertRanked(SortedAggregates(SubSeq(rows, 1, Len(rows) - 1)),
                      rows[Len(rows)])

\* the rankings list of aggregate_comparison_results
Rankings(rows) ==
    LET sorted == SortedAggregates(rows)
    IN  [i \in 1..Len(sorted) |->
            [rank |-> i, agent_id |-> sorted[i].agent_id,
             successful_simulations |-> sorted[i].successful_simulations,
             failed_simulations |-> sorted[i].failed_simulations,
             stats |-> sorted[i].stats]]

(* ---------------------- CriticalIssuesAnalyzer ------------------------- *)

\* Thresholds of the analyzer, in the units the metrics are held in here:
\* accuracy in tenths (0..1 scale), hangup rate in thousandths, latency in
\* milliseconds, judge means in whole points (0..10 scale), standard
\* deviations in thousandths.
ACCURACY_THRESHOLD_CRITICAL == 5

ACCURACY_THRESHOLD_HIGH == 7

HANGUP_RATE_THRESHOLD_CRITICAL == 400

HANGUP_RATE_THRESHOLD_HIGH == 600

LATENCY_P99_THRESHOLD_HIGH == 3000

HUMANLIKE_THRESHOLD_MEDIUM == 5

OUTCOME_THRESHOLD_MEDIUM == 7

ZERO_VARIANCE_THRESHOLD == 1

Issue(check, severity) == [check |-> check, severity |-> severity]

\* mean < threshold and mean > threshold of a stored mean against a
\* threshold of the class, which is the double nearest to its decimal
MeanBelow(mean, threshold) == MeanLess(mean, Exact(threshold))

MeanAbove(mean, threshold) == MeanLess(Exact(threshold), mean)

\* std < threshold, the threshold in thousandths: the squares compare as
\* the values do, and a square of 2148 or more units is past the threshold
\* whatever its denominator
StdBelow(std, threshold) ==
    /\ std.sq_num < 2148
    /\ std.sq_num * 1000000 < threshold * threshold * std.sq_den

\* each _check_* returns an issue, or None
CheckHangupRate(agent) ==
    LET hangup_rate == agent.hangup_success_rate
    IN  IF hangup_rate = None THEN None
        ELSE IF hangup_rate[1] < HANGUP_RATE_THRESHOLD_CRITICAL
        THEN Some(Issue("hangup_rate", "critical"))
        ELSE IF hangup_rate[1] < HANGUP_RATE_THRESHOLD_HIGH
        THEN Some(Issue("hangup_rate", "high"))
        ELSE None

CheckAccuracy(agent) ==
    LET accuracy_mean == agent.accuracy.mean
    IN  IF accuracy_mean = None THEN None
        ELSE IF MeanBelow(accuracy_mean[1], ACCURACY_THRESHOLD_CRITICAL)
        THEN Some(Issue("accuracy", "critical"))
        ELSE IF MeanBelow(accuracy_mean[1], ACCURACY_THRESHOLD_HIGH)
        THEN Some(Issue("accuracy", "high"))
        ELSE None

CheckZeroVariance(agent) ==
    LET IsZero(std) == std # None /\ StdBelow(std[1], ZERO_VARIANCE_THRESHOLD)
        zero_variance_metrics ==
            (IF IsZero(agent.accuracy.std) THEN << "accuracy" >> ELSE << >>)
            \o (IF IsZero(agent.humanlike.std) THEN << "humanlike" >> ELSE << >>)
            \o (IF IsZero(agent.avg_turns.std) THEN << "turn count" >> ELSE << >>)
    IN  IF Len(zero_variance_metrics) >= 2
        THEN Some(Issue("zero_variance", "high"))
        ELSE None

CheckLatency(agent) ==
    LET p99_mean == agent.latency.p99_mean
    IN  IF p99_mean = None THEN None
        ELSE IF MeanAbove(p99_mean[1], LATENCY_P99_THRESHOLD_HIGH)
        THEN Some(Issue("latency", "high"))
        ELSE None

CheckHumanlike(agent) ==
    LET humanlike_mean == agent.humanlike.mean
    IN  IF humanlike_mean = None THEN None
        ELSE IF MeanBelow(humanlike_mean[1], HUMANLIKE_THRESHOLD_MEDIUM)
        THEN Some(Issue("humanlike", "medium"))
        ELSE None

CheckOutcome(agent) ==
    LET outcome_mean == agent.outcome_orientation.mean
    IN  IF outcome_mean = None THEN None
        ELSE IF MeanBelow(outcome_mean[1], OUTCOME_THRESHOLD_MEDIUM)
        THEN Some(Issue("outcome", "medium"))
        ELSE None

\* the issues list of analyze_agent before it is sorted: an Optional is
\* the empty or the one-element sequence, so appending is concatenation
FiredIssues(agent) ==
    CheckHangupRate(agent) \o CheckAccuracy(agent) \o CheckZeroVariance(agent)
    \o CheckLatency(agent) \o CheckHumanlike(agent) \o CheckOutcome(agent)

\* severity_order of analyze_agent
SeverityOrder(severity) ==
    CASE severity = "critical" -> 0
      [] severity = "high" -> 1
      [] severity = "medium" -> 2

\* sorted(issues, key=severity_order[...]): ascending and stable
RECURSIVE InsertIssue(_, _)
InsertIssue(sorted, issue) ==
    IF sorted = << >> THEN << issue >>
    ELSE IF SeverityOrder(issue.severity) < SeverityOrder(Head(sorted).severity)
    THEN << issue >> \o sorted
    ELSE << Head(sorted) >> \o InsertIssue(Tail(sorted), issue)

RECURSIVE SortedIssues(_)
SortedIssues(issues) ==
    IF issues = << >> THEN << >>
    ELSE InsertIssue(SortedIssues(SubSeq(issues, 1, Len(issues) - 1)),
                     issues[Len(issues)])

\* s[:3]
FirstThree(s) == SubSeq(s, 1, IF Len(s) < 3 THEN Len(s) ELSE 3)

\* AnalyzeAgent with the sort left out
AnalyzeAgentUnsorted(agent) == FirstThree(FiredIssues(agent))

\* analyze_agent
AnalyzeAgent(agent) == FirstThree(SortedIssues(FiredIssues(agent)))

(* ------------------------------- state --------------------------------- *)

VARIABLES
    comparison,         \* the AgentComparison row: status, current_phase, error_message, results
    configs,            \* the resolved agent configs, by agent id
    advanced_settings,  \* scenario["advanced_settings"]: the overrides of the settings
    opc,                \* where the background execution of the comparison stands
    store_idx,          \* index of the next aggregate the store loop handles
    apc,                \* per agent: where _run_multi_simulation_for_agent stands
    sem,                \* per agent: free permits of that call's semaphore
    aggregated,         \* per agent: the value _run_multi_simulation_for_agent returned
    tpc,                \* per simulation task: waiting, inserting, sim, judge, closing,
                        \* returned, raised
    tsim,               \* per simulation task: the state of its simulate() call
    run,                \* per simulation task: its AgentComparisonRun row
    ret,                \* per simulation task: what gather received from it
    aggregates,         \* the AgentComparisonAggregate rows, in insertion order
    sim,                \* a stand-alone simulate() call: its state s and the log of
                        \* what its collaborators did
    calc,               \* a stand-alone _calculate_composite_score call
    call                \* a stand-alone call of one of the other functions: its
                        \* name, its input and what it returned

orchVars == << comparison, configs, advanced_settings, opc, store_idx, apc, sem,
               aggregated, tpc, tsim, run, ret, aggregates >>

vars == << comparison, configs, advanced_settings, opc, store_idx, apc, sem,
           aggregated, tpc, tsim, run, ret, aggregates, sim, calc, call >>

AgentOf(t) == t[1]

TasksOf(a) == {t \in Tasks : AgentOf(t) = a}

\* a simulate() call that is not running
IdleSim ==
    [ transcript |-> << >>, latencies |-> << >>, hangup_reason |-> "max_turns_reached",
      max_turns |-> 0, hangup_prompt |-> FALSE, turn_num |-> 0, at |-> "idle" ]

IdleCalc == [at |-> "idle", run |-> NoRun, score |-> 0]

\* no stand-alone call is under way
IdleCall == [fn |-> "none", at |-> "idle"]

\* the agent configs the comparison resolves: a1 greets and has a hangup
\* policy, a2 does neither
ConfigOf(a, supported) ==
    [ agent_id |-> a, supported |-> supported,
      welcome_message |-> (a = "a1"), hangup_prompt |-> (a = "a1") ]

\* the max_conversation_turns a comparison may override the setting with
MaxTurnsOverrides == {None, Some(1)}

\* the max_concurrent_simulations a comparison may override the setting with
MaxConcurrentOverrides == {None, Some(2)}

\* scenario["advanced_settings"] of the comparison under check: no
\* override, the turn limit overridden, or both settings overridden
AdvancedSettings ==
    { [max_conversation_turns |-> m, max_concurrent_simulations |-> c] :
        m \in MaxTurnsOverrides, c \in MaxConcurrentOverrides }
    \ { [max_conversation_turns |-> None, max_concurrent_simulations |-> c] :
          c \in MaxConcurrentOverrides \ {None} }

\* agent latencies, ms
Latencies == {1200}

\* replies of the hangup oracle's LLM call
HangupReplies ==
    { [kind |-> "call_failed", value |-> "", keyword |-> FALSE],
      [kind |-> "no_content", value |-> "", keyword |-> FALSE],
      [kind |-> "json_object", value |-> "yes", keyword |-> TRUE],
      [kind |-> "json_object", value |-> "no", keyword |-> FALSE],
      [kind |-> "json_object", value |-> "no", keyword |-> TRUE],
      [kind |-> "json_object", value |-> "", keyword |-> FALSE],
      [kind |-> "json_other", value |-> "", keyword |-> TRUE],
      [kind |-> "json_other", value |-> "", keyword |-> FALSE],
      [kind |-> "text", value |-> "", keyword |-> TRUE],
      [kind |-> "text", value |-> "", keyword |-> FALSE] }

\* replies of the judge's LLM call about a conversation of agent a, as the
\* orchestrator model draws them: {"accuracy": 0, "humanlike": 0,
\* "outcome": 0} and a failed call, and about the conversations of a1 also
\* {"accuracy": 8, "humanlike": "high", "outcome": 6}
JudgeReplies(a) ==
    { [kind |-> "scores", accuracy |-> Some(0), humanlike |-> Some(0), outcome |-> Some(0)],
      [kind |-> "failed", accuracy |-> None, humanlike |-> None, outcome |-> None] }
    \cup (IF a = "a1"
          THEN { [kind |-> "scores", accuracy |-> Some(8), humanlike |-> Text("high"),
                  outcome |-> Some(6)] }
          ELSE {})

OrchInit ==
    /\ comparison = [status |-> "pending", current_phase |-> "none",
                     error_message |-> FALSE, results |-> None]
    /\ configs \in {[a \in Agents |-> ConfigOf(a, f[a])] : f \in [Agents -> BOOLEAN]}
    /\ advanced_settings \in AdvancedSettings
    /\ opc = "idle"
    /\ store_idx = 0
    /\ apc = [a \in Agents |-> "idle"]
    /\ sem = [a \in Agents |-> 0]
    /\ aggregated = [a \in Agents |-> None]
    /\ tpc = [t \in Tasks |-> "idle"]
    /\ tsim = [t \in Tasks |-> IdleSim]
    /\ run = [t \in Tasks |-> NoRun]
    /\ ret = [t \in Tasks |-> None]
    /\ aggregates = << >>

Init ==
    /\ OrchInit
    /\ sim = [s |-> IdleSim, log |-> << >>]
    /\ calc = IdleCalc
    /\ call = IdleCall

(* ------------------ execute endpoint and execute_comparison ------------ *)

\* POST /comparisons/{id}/execute: the handler creates the background task
ExecuteRequest ==
    /\ opc = "idle"
    /\ opc' = "created"
    /\ UNCHANGED << comparison, configs, advanced_settings, store_idx, apc, sem,
                    aggregated, tpc, tsim, run, ret, aggregates, sim, calc, call >>

\* execute_comparison up to the config fetch
StartComparison ==
    /\ opc = "created"
    /\ comparison' = [comparison EXCEPT !.status = "running",
                                        !.current_phase = "fetching_configs"]
    /\ opc' = "fetching"
    /\ UNCHANGED << configs, advanced_settings, store_idx, apc, sem,
                    aggregated, tpc, tsim, run, ret, aggregates, sim, calc, call >>

\* Unsupported with only the first config looked at
UnsupportedFirstOnly == {a \in {AgentOrder[1]} : ~configs[a].supported}

\* the configs execute_comparison rejects
Unsupported == {a \in Agents : ~configs[a].supported}

\* step 2 found an unsupported config: ValueError, which background_execution
\* records on the comparison
RejectUnsupported ==
    /\ opc = "fetching"
    /\ Unsupported # {}
    /\ comparison' = [comparison EXCEPT !.status = "failed", !.error_message = TRUE]
    /\ opc' = "done"
    /\ UNCHANGED << configs, advanced_settings, store_idx, apc, sem,
                    aggregated, tpc, tsim, run, ret, aggregates, sim, calc, call >>

\* the max_concurrent execute_comparison passes down
PassedMaxConcurrent ==
    OrElse(advanced_settings.max_concurrent_simulations, MaxConcurrent)

\* steps 3-4: read the advanced settings and gather one
\* _run_multi_simulation_for_agent per config, each with its own semaphore
\* of max_concurrent permits and its num_simulations tasks
LaunchSimulations ==
    /\ opc = "fetching"
    /\ Unsupported = {}
    /\ comparison' = [comparison EXCEPT !.current_phase = "running_simulations"]
    /\ opc' = "gather"
    /\ apc' = [a \in Agents |-> "gather"]
    /\ sem' = [a \in Agents |-> PassedMaxConcurrent]
    /\ tpc' = [t \in Tasks |-> "waiting"]
    /\ UNCHANGED << configs, advanced_settings, store_idx, aggregated, tsim, run,
                    ret, aggregates, sim, calc, call >>

(* ------------------------- one simulation task ------------------------- *)

\* the task leaves "async with semaphore" with a value or an exception
Release(t) == sem' = [sem EXCEPT ![AgentOf(t)] = @ + 1]

\* a simulate() call that returned: what is kept of it is the
\* hangup_reason of its result
ReturnedSim(simulation_result) ==
    [IdleSim EXCEPT !.hangup_reason = simulation_result.hangup_reason,
                    !.at = "returned"]

\* _process_simulation_result reached status "completed" with the given
\* accuracy results; _run_single_simulation hands the commit to a thread,
\* with the permit held and nothing returned yet
CompleteRun(t, simulation_result, accuracy_results) ==
    /\ \E latency_p99 \in LatencyP99s(simulation_result.latencies) :
          run' = [run EXCEPT ![t] = ProcessedRun(run[t], simulation_result,
                                                 accuracy_results, latency_p99)]
    /\ tpc' = [tpc EXCEPT ![t] = "closing"]
    /\ tsim' = [tsim EXCEPT ![t] = ReturnedSim(simulation_result)]
    /\ UNCHANGED << ret, sem >>

\* FailRun with the failure cancelling every simulation in flight
FailRunCancelSiblings(t) ==
    LET hit == {t} \cup {u \in Tasks : tpc[u] = "sim"}
    IN  /\ run' = [u \in Tasks |-> IF u \in hit THEN [run[u] EXCEPT !.status = "failed"]
                                   ELSE run[u]]
        /\ tpc' = [u \in Tasks |-> IF u \in hit THEN "closing" ELSE tpc[u]]
        /\ tsim' = [u \in Tasks |-> IF u \in hit THEN IdleSim ELSE tsim[u]]
        /\ UNCHANGED << ret, sem >>

\* the except branches of _run_single_simulation: the run becomes failed
\* and the commit is handed to a thread, with the permit still held
FailRun(t) ==
    /\ run' = [run EXCEPT ![t].status = "failed"]
    /\ tpc' = [tpc EXCEPT ![t] = "closing"]
    /\ tsim' = [tsim EXCEPT ![t] = IdleSim]
    /\ UNCHANGED << ret, sem >>

\* simulate() moved to state s: either it awaits its next call, or it
\* returned and _process_simulation_result runs up to the judge call.  No
\* judge call is made for an empty transcript: nothing then suspends the
\* task between status "running" (194) and status "completed" (259), so
\* that the step ends with the completed run
Advance(t, s) ==
    IF s.at # "returned"
    THEN /\ tsim' = [tsim EXCEPT ![t] = s]
         /\ UNCHANGED << tpc, run, ret, sem >>
    ELSE IF s.transcript = << >>
    THEN CompleteRun(t, SimulationResult(s),
                     ValidateSimulatedTranscript(s.transcript, [kind |-> "failed"]))
    ELSE /\ tsim' = [tsim EXCEPT ![t] = s]
         /\ tpc' = [tpc EXCEPT ![t] = "judge"]
         /\ run' = [run EXCEPT ![t].status = "running"]
         /\ UNCHANGED << ret, sem >>

\* the max_turns execute_comparison passes down
PassedMaxTurns ==
    Some(OrElse(advanced_settings.max_conversation_turns, SettingsMaxTurns))

TaskFrame == UNCHANGED << comparison, configs, advanced_settings, opc, store_idx,
                          apc, aggregated, aggregates, sim, calc, call >>

\* run_with_semaphore enters the semaphore; _run_single_simulation opens
\* its session, builds the run and hands session.add, then session.commit,
\* to a thread.  Nothing the task owns changes between those two awaits, so
\* they are one wait here.  The tasks of an agent reach the semaphore in
\* simulation order and asyncio.Semaphore wakes its waiters first-in
\* first-out.
AcquireAndStart(t) ==
    /\ tpc[t] = "waiting"
    /\ sem[AgentOf(t)] > 0
    /\ \A u \in TasksOf(AgentOf(t)) : u[2] < t[2] => tpc[u] # "waiting"
    /\ tpc' = [tpc EXCEPT ![t] = "inserting"]
    /\ sem' = [sem EXCEPT ![AgentOf(t)] = @ - 1]
    /\ UNCHANGED << tsim, run, ret >>
    /\ TaskFrame

\* session.commit returned: the run row is stored as pending and simulate()
\* starts under wait_for
RunInserted(t) ==
    /\ tpc[t] = "inserting"
    /\ tpc' = [tpc EXCEPT ![t] = "sim"]
    /\ tsim' = [tsim EXCEPT ![t] = NewSimulation(configs[AgentOf(t)], PassedMaxTurns)]
    /\ run' = [run EXCEPT ![t].status = "pending"]
    /\ UNCHANGED << ret, sem >>
    /\ TaskFrame

\* The commit of the completed run (457) was handed to a thread, and the
\* run holds a rating that is no number: the commit raises, or it returns
\* and _calculate_composite_score (469) raises on that rating.  Either way
\* the handler at 479-485 runs: the run, completed until now, becomes failed
\* and the commit of that is handed to a thread, with the permit still held
CompletionRaises(t) ==
    /\ tpc[t] = "closing"
    /\ run[t].status = "completed"
    /\ ScoreRaises(run[t])
    /\ FailRun(t)
    /\ TaskFrame

\* the commit of the run's final status, then session.close of the finally
\* clause, returned (again one wait): _run_single_simulation returns the
\* metrics of its completed run when building them raises nothing, or
\* raises; run_with_semaphore leaves the semaphore and gather keeps the
\* value or the exception as that task's result
SessionClosed(t) ==
    /\ tpc[t] = "closing"
    /\ IF run[t].status = "completed"
       THEN /\ ~ScoreRaises(run[t])
            /\ ret' = [ret EXCEPT ![t] = Some(RunMetrics(run[t]))]
            /\ tpc' = [tpc EXCEPT ![t] = "returned"]
       ELSE /\ ret' = [ret EXCEPT ![t] = Some(RaisedException)]
            /\ tpc' = [tpc EXCEPT ![t] = "raised"]
    /\ Release(t)
    /\ UNCHANGED << tsim, run >>
    /\ TaskFrame

\* generate_next_user_turn returned a message or None
UserGeneratorReturns(t) ==
    /\ tpc[t] = "sim" /\ tsim[t].at = "user"
    /\ \E user_msg \in {None, Some("text")} :
          Advance(t, UserTurnGenerated(tsim[t], user_msg))
    /\ TaskFrame

\* generate_next_user_turn raised: simulate re-raises
UserGeneratorRaises(t) ==
    /\ tpc[t] = "sim" /\ tsim[t].at = "user"
    /\ FailRun(t)
    /\ TaskFrame

\* _call_agent_llm returned
AgentLLMReturns(t) ==
    /\ tpc[t] = "sim" /\ tsim[t].at = "agent"
    /\ \E latency_ms \in Latencies :
          Advance(t, AgentResponded(tsim[t], latency_ms))
    /\ TaskFrame

\* _call_agent_llm raised: simulate re-raises
AgentLLMRaises(t) ==
    /\ tpc[t] = "sim" /\ tsim[t].at = "agent"
    /\ FailRun(t)
    /\ TaskFrame

\* the hangup oracle's LLM call ended, with a reply or an error
HangupOracleReturns(t) ==
    /\ tpc[t] = "sim" /\ tsim[t].at = "hangup"
    /\ \E should_hangup \in {CheckHangup(tsim[t].hangup_prompt, reply) :
                                reply \in HangupReplies} :
          Advance(t, HangupChecked(tsim[t], should_hangup))
    /\ TaskFrame

\* wait_for's timeout expired while simulate() awaited one of its calls
SimulationTimeout(t) ==
    /\ tpc[t] = "sim"
    /\ FailRun(t)
    /\ TaskFrame

\* the judge's call ended, with scores or with a failure the validator
\* turns into its default result
JudgeReturns(t) ==
    /\ tpc[t] = "judge"
    /\ \E reply \in JudgeReplies(AgentOf(t)) :
          CompleteRun(t, SimulationResult(tsim[t]),
                      ValidateSimulatedTranscript(tsim[t].transcript, reply))
    /\ TaskFrame

\* validate_simulated_transcript raised: _process_simulation_result logs it
\* and carries on with the fallback results
ValidatorRaises(t) ==
    /\ tpc[t] = "judge"
    /\ CompleteRun(t, SimulationResult(tsim[t]), ValidationFailedResults)
    /\ TaskFrame

TaskStep(t) ==
    \/ AcquireAndStart(t)
    \/ RunInserted(t)
    \/ CompletionRaises(t)
    \/ SessionClosed(t)
    \/ UserGeneratorReturns(t)
    \/ UserGeneratorRaises(t)
    \/ AgentLLMReturns(t)
    \/ AgentLLMRaises(t)
    \/ HangupOracleReturns(t)
    \/ SimulationTimeout(t)
    \/ JudgeReturns(t)
    \/ ValidatorRaises(t)

(* ------------------------ join, store and rank ------------------------- *)

\* gather(..., return_exceptions=True) returns once every task of the
\* agent has returned or raised
GatherReady(a) == \A t \in TasksOf(a) : tpc[t] \in {"returned", "raised"}

\* the gathered results of an agent, in task order
ResultsOf(a) == [n \in 1..NumSimulations |-> ret[<<a, n>>][1]]

\* _run_multi_simulation_for_agent after its gather
AgentJoin(a) ==
    /\ apc[a] = "gather"
    /\ GatherReady(a)
    /\ aggregated' = [aggregated EXCEPT ![a] = Some(AgentAggregate(a, ResultsOf(a)))]
    /\ apc' = [apc EXCEPT ![a] = "returned"]
    /\ UNCHANGED << comparison, configs, advanced_settings, opc, store_idx, sem,
                    tpc, tsim, run, ret, aggregates, sim, calc, call >>

\* AggregatedResults with the agents that have no successful run dropped
AggregatedResultsDropFailed ==
    SelectSeq([i \in 1..Len(AgentOrder) |-> aggregated[AgentOrder[i]][1]],
              LAMBDA agg : agg.successful_simulations > 0)

\* aggregated_results of execute_comparison: one entry per config, in order
AggregatedResults == [i \in 1..Len(AgentOrder) |-> aggregated[AgentOrder[i]][1]]

\* the outer gather returned: phase "aggregating"
BeginAggregating ==
    /\ opc = "gather"
    /\ \A a \in Agents : apc[a] = "returned"
    /\ comparison' = [comparison EXCEPT !.current_phase = "aggregating"]
    /\ opc' = "store"
    /\ store_idx' = 1
    /\ UNCHANGED << configs, advanced_settings, apc, sem, aggregated, tpc, tsim,
                    run, ret, aggregates, sim, calc, call >>

\* one round of the store loop: _store_aggregate_result in a thread
StoreAggregateResult ==
    /\ opc = "store"
    /\ store_idx <= Len(AggregatedResults)
    /\ aggregates' = Append(aggregates, AggregateRow(AggregatedResults[store_idx]))
    /\ store_idx' = store_idx + 1
    /\ UNCHANGED << comparison, configs, advanced_settings, opc, apc, sem,
                    aggregated, tpc, tsim, run, ret, sim, calc, call >>

\* the entry of the rankings as analyze_agent reads it
RankingEntry(entry) ==
    [ hangup_success_rate |-> entry.stats.hangup_success_rate,
      accuracy |-> [mean |-> entry.stats.accuracy_mean, std |-> entry.stats.accuracy_std],
      humanlike |-> [mean |-> entry.stats.humanlike_mean,
                     std |-> entry.stats.humanlike_std],
      avg_turns |-> [std |-> entry.stats.avg_turns_std],
      latency |-> [p99_mean |-> entry.stats.latency_p99_mean],
      outcome_orientation |-> [mean |-> entry.stats.outcome_mean] ]

\* the results aggregate_comparison_results stores for a non-empty list of
\* aggregate rows: the rankings and the critical issues of the best agent
ComparisonResults(rows) ==
    LET rankings == Rankings(rows)
    IN  [ total_agents |-> Len(rows),
          simulations_per_agent |-> NumSimulations,
          rankings |-> rankings,
          critical_issues |-> AnalyzeAgent(RankingEntry(rankings[1])) ]

\* AggregateComparisonResults started without waiting for the store loop
AggregateComparisonResultsEarly ==
    /\ opc = "store"
    /\ comparison' = IF aggregates = << >>
                     THEN [comparison EXCEPT !.current_phase = "analyzing"]
                     ELSE [comparison EXCEPT !.current_phase = "analyzing",
                                             !.results = Some(ComparisonResults(aggregates)),
                                             !.status = "completed"]
    /\ opc' = "done"
    /\ UNCHANGED << configs, advanced_settings, store_idx, apc, sem, aggregated,
                    tpc, tsim, run, ret, aggregates, sim, calc, call >>

\* the store loop is over: phase "analyzing" and aggregate_comparison_results,
\* which ranks the stored rows, analyzes the best agent and completes the
\* comparison, or returns early when it finds no row
AggregateComparisonResults ==
    /\ opc = "store"
    /\ store_idx > Len(AggregatedResults)
    /\ comparison' = IF aggregates = << >>
                     THEN [comparison EXCEPT !.current_phase = "analyzing"]
                     ELSE [comparison EXCEPT !.current_phase = "analyzing",
                                             !.results = Some(ComparisonResults(aggregates)),
                                             !.status = "completed"]
    /\ opc' = "done"
    /\ UNCHANGED << configs, advanced_settings, store_idx, apc, sem, aggregated,
                    tpc, tsim, run, ret, aggregates, sim, calc, call >>

OrchNext ==
    \/ ExecuteRequest
    \/ StartComparison
    \/ RejectUnsupported
    \/ LaunchSimulations
    \/ \E t \in Tasks : TaskStep(t)
    \/ \E a \in Agents : AgentJoin(a)
    \/ BeginAggregating
    \/ StoreAggregateResult
    \/ AggregateComparisonResults

Next == OrchNext

Spec == Init /\ [][Next]_vars

(* ---------------------- a stand-alone simulate() call ------------------ *)

\* the orchestrator at rest, for the specifications of single calls
OrchAtRest ==
    /\ OrchInit
    /\ configs = [a \in Agents |-> ConfigOf(a, TRUE)]
    /\ advanced_settings = [max_conversation_turns |-> None,
                            max_concurrent_simulations |-> None]

SimInit ==
    /\ OrchAtRest
    /\ sim = [s |-> IdleSim, log |-> << >>]
    /\ calc = IdleCalc
    /\ call = IdleCall

\* simulate(agent_config, scenario, max_turns) is called
SimStart ==
    /\ sim.s.at = "idle"
    /\ \E welcome \in BOOLEAN, prompt \in BOOLEAN,
          max_turns \in {None} \cup {Some(k) : k \in 0..SimMaxTurns} :
          sim' = [s |-> NewSimulation([welcome_message |-> welcome,
                                       hangup_prompt |-> prompt], max_turns),
                  log |-> << >>]
    /\ UNCHANGED << orchVars, calc, call >>

SimUserReturns ==
    /\ sim.s.at = "user"
    /\ \E user_msg \in {None, Some("text")} :
          sim' = [s |-> UserTurnGenerated(sim.s, user_msg),
                  log |-> Append(sim.log, [call |-> "user", null |-> user_msg = None])]
    /\ UNCHANGED << orchVars, calc, call >>

SimAgentReturns ==
    /\ sim.s.at = "agent"
    /\ \E latency_ms \in Latencies :
          sim' = [s |-> AgentResponded(sim.s, latency_ms),
                  log |-> Append(sim.log, [call |-> "agent"])]
    /\ UNCHANGED << orchVars, calc, call >>

SimHangupOracleReturns ==
    /\ sim.s.at = "hangup"
    /\ \E reply \in HangupReplies :
          sim' = [s |-> HangupChecked(sim.s, CheckHangup(sim.s.hangup_prompt, reply)),
                  log |-> Append(sim.log, [call |-> "hangup", reply |-> reply])]
    /\ UNCHANGED << orchVars, calc, call >>

\* the user-turn generator or the agent LLM raised: simulate re-raises
SimCallRaises ==
    /\ sim.s.at \in {"user", "agent"}
    /\ sim' = [sim EXCEPT !.s.at = "raised"]
    /\ UNCHANGED << orchVars, calc, call >>

SimNext ==
    \/ SimStart
    \/ SimUserReturns
    \/ SimAgentReturns
    \/ SimHangupOracleReturns
    \/ SimCallRaises

SimSpec == SimInit /\ [][SimNext]_vars

(* ---------------- a stand-alone _calculate_composite_score ------------- *)

Scores == 0..10

Optional(S) == {None} \cup {Some(x) : x \in S}

\* run rows the score is computed for: every subset of present metrics
ScoredRuns ==
    [ status : {"completed"},
      total_turns : Optional(0..SettingsMaxTurns),
      latency_median : {None},
      latency_p99 : {None},
      overall_accuracy : Optional(Scores),
      humanlike_rating : Optional(Scores),
      outcome_orientation : Optional(Scores) ]

ScoreInit ==
    /\ OrchAtRest
    /\ sim = [s |-> IdleSim, log |-> << >>]
    /\ calc \in {[at |-> "input", run |-> r, score |-> 0] : r \in ScoredRuns}
    /\ call = IdleCall

ComputeCompositeScore ==
    /\ calc.at = "input"
    /\ calc' = [calc EXCEPT !.at = "done", !.score = CalculateCompositeScore(calc.run)]
    /\ UNCHANGED << orchVars, sim, call >>

ScoreNext == ComputeCompositeScore

ScoreSpec == ScoreInit /\ [][ScoreNext]_vars

(* ------------- a stand-alone aggregate_comparison_results -------------- *)

\* how many aggregate rows the stand-alone ranking is given
NumRanked == 3

RankedIds == <<"r1", "r2", "r3", "r4", "r5">>

\* the aggregate rows a comparison can own: an agent whose simulations all
\* failed (no statistics), or an agent with successful runs, whose
\* composite_score_mean and latency_median_mean (ms) are both present
RankedRowChoices ==
    { [total_simulations |-> NumSimulations, successful_simulations |-> 0,
       failed_simulations |-> NumSimulations, stats |-> NoStatistics] }
    \cup
    { [total_simulations |-> NumSimulations, successful_simulations |-> c.den,
       failed_simulations |-> NumSimulations - c.den,
       stats |-> [NoStatistics EXCEPT !.composite_score_mean = Some(c),
                                      !.latency_median_mean = Some(l),
                                      !.hangup_success_rate = Some(0)]] :
        c \in {Exact(0), Exact(700),
                [num |-> 1400, den |-> 2, err |-> 0]},
        l \in {Exact(800), Exact(1200),
                [num |-> 2400, den |-> 2, err |-> 0]} }

\* the rows in the order the query returns them, or no row at all
RankedInputs ==
    { << >> } \cup
    { [i \in 1..NumRanked |->
          [agent_id |-> RankedIds[i],
           total_simulations |-> f[i].total_simulations,
           successful_simulations |-> f[i].successful_simulations,
           failed_simulations |-> f[i].failed_simulations,
           stats |-> f[i].stats]] : f \in [1..NumRanked -> RankedRowChoices] }

\* the comparison is running and its results are not set; the aggregate
\* rows the query finds are held in call.input
RankInit ==
    /\ comparison = [status |-> "running", current_phase |-> "analyzing",
                     error_message |-> FALSE, results |-> None]
    /\ configs = [a \in Agents |-> ConfigOf(a, TRUE)]
    /\ advanced_settings = [max_conversation_turns |-> None,
                            max_concurrent_simulations |-> None]
    /\ opc = "idle"
    /\ store_idx = 0
    /\ apc = [a \in Agents |-> "idle"]
    /\ sem = [a \in Agents |-> 0]
    /\ aggregated = [a \in Agents |-> None]
    /\ tpc = [t \in Tasks |-> "idle"]
    /\ tsim = [t \in Tasks |-> IdleSim]
    /\ run = [t \in Tasks |-> NoRun]
    /\ ret = [t \in Tasks |-> None]
    /\ aggregates = << >>
    /\ sim = [s |-> IdleSim, log |-> << >>]
    /\ calc = IdleCalc
    /\ call \in {[fn |-> "rank", at |-> "input", input |-> rows, output |-> << >>] :
                    rows \in RankedInputs}

\* aggregate_comparison_results: without a row it returns an error and
\* leaves the comparison alone; else it sorts the rows, builds the rankings,
\* analyzes the best agent, stores the results in the comparison, completes
\* it and returns the results
RankAggregates ==
    /\ call.fn = "rank" /\ call.at = "input"
    /\ IF call.input = << >>
       THEN /\ call' = [call EXCEPT !.at = "done",
                                    !.output = [error |-> "No aggregate results"]]
            /\ UNCHANGED comparison
       ELSE /\ call' = [call EXCEPT !.at = "done",
                                    !.output = ComparisonResults(call.input)]
            /\ comparison' = [comparison EXCEPT
                                  !.results = Some(ComparisonResults(call.input)),
                                  !.status = "completed"]
    /\ UNCHANGED << configs, advanced_settings, opc, store_idx, apc, sem, aggregated,
                    tpc, tsim, run, ret, aggregates, sim, calc >>

RankNext == RankAggregates

RankSpec == RankInit /\ [][RankNext]_vars

(* ------------- a stand-alone CriticalIssuesAnalyzer call --------------- *)

\* the standard deviations the stand-alone analysis is given: 0.0 and 0.001
AnalyzedStds == {[sq_num |-> 0, sq_den |-> 1], [sq_num |-> 1, sq_den |-> 1000000]}

\* the ranking entries the stand-alone analysis is given: every metric
\* absent, clear of its thresholds, on a threshold, or past it (4.9 as the
\* mean of ten ratings)
AnalyzedAgents ==
    [ hangup_success_rate : Optional({200, 400, 600}),
      accuracy : [mean : Optional({Exact(3), Exact(5), Exact(7)}),
                  std : Optional(AnalyzedStds)],
      humanlike : [mean : Optional({[num |-> 49, den |-> 10, err |-> 0], Exact(5),
                                    Exact(9)}),
                   std : Optional(AnalyzedStds)],
      avg_turns : [std : Optional(AnalyzedStds)],
      latency : [p99_mean : Optional({Exact(3000), Exact(3001)})],
      outcome_orientation : [mean : Optional({[num |-> 69, den |-> 10, err |-> 0],
                                              Exact(7)})] ]

IssuesInit ==
    /\ OrchAtRest
    /\ sim = [s |-> IdleSim, log |-> << >>]
    /\ calc = IdleCalc
    /\ call \in {[fn |-> "analyze_agent", at |-> "input", input |-> agent,
                   output |-> << >>] : agent \in AnalyzedAgents}

AnalyzeBestAgent ==
    /\ call.fn = "analyze_agent" /\ call.at = "input"
    /\ call' = [call EXCEPT !.at = "done", !.output = AnalyzeAgent(call.input)]
    /\ UNCHANGED << orchVars, sim, calc >>

IssuesNext == AnalyzeBestAgent

IssuesSpec == IssuesInit /\ [][IssuesNext]_vars

(* ------------- ImprovedVoiceAnalyzer: the health score ----------------- *)

\* at most this many pauses, interruptions and termination issues are
\* handed to the stand-alone health score
MaxDetected == 3

\* sequences over S of length at most n
SeqsUpTo(S, n) == UNION {[1..k -> S] : k \in 0..n}

Max(a, b) == IF a >= b THEN a ELSE b

\* CalculateHealthScore without the floor at 0
CalculateHealthScoreNoFloor(pauses, interruptions, termination) ==
    LET agent_delays == SelectSeq(pauses, LAMBDA p : p.type = "agent_delay")
    IN  100 - Len(agent_delays) * 15 - Len(pauses) * 5 - Len(interruptions) * 10
            - Len(termination.issues) * 20

\* _calculate_health_score
CalculateHealthScore(pauses, interruptions, termination) ==
    LET agent_delays == SelectSeq(pauses, LAMBDA p : p.type = "agent_delay")
        base_score == 100 - Len(agent_delays) * 15 - Len(pauses) * 5
                          - Len(interruptions) * 10
                          - Len(termination.issues) * 20
    IN  Max(0, base_score)

\* what analyze_conversation hands to the score: the pauses by type, the
\* interruptions and the termination issues
HealthInputs ==
    [ pauses : SeqsUpTo({[type |-> "agent_delay"], [type |-> "short_pause"]}, MaxDetected),
      interruptions : SeqsUpTo({[type |-> "interruption"]}, MaxDetected),
      termination : [issues : SeqsUpTo({"issue"}, MaxDetected)] ]

HealthInit ==
    /\ OrchAtRest
    /\ sim = [s |-> IdleSim, log |-> << >>]
    /\ calc = IdleCalc
    /\ call \in {[fn |-> "health_score", at |-> "input", input |-> x, output |-> 0] :
                    x \in HealthInputs}

ComputeHealthScore ==
    /\ call.fn = "health_score" /\ call.at = "input"
    /\ call' = [call EXCEPT !.at = "done",
                            !.output = CalculateHealthScore(call.input.pauses,
                                                            call.input.interruptions,
                                                            call.input.termination)]
    /\ UNCHANGED << orchVars, sim, calc >>

HealthNext == ComputeHealthScore

HealthSpec == HealthInit /\ [][HealthNext]_vars

(* ------------- ImprovedVoiceAnalyzer: speech segments ------------------ *)

\* The frame period is hop_length / sr; the masks checked here are
\* NumFrames frames of FrameMs milliseconds.
NumFrames == 12

FrameMs == 100

\* a run not longer than this (0.2 s) is dropped unless the audio ends in it
MIN_RUN_MS == 200

\* segments closer than this (0.2 s) are merged
MERGE_GAP_MS == 200

\* a segment, its duration being end - start as the doubles give it
Segment(start, end) == [start |-> start, end |-> end, duration |-> TimeSub(end, start)]

\* the segment from start ms to end ms
SegmentMs(start, end) == Segment(TimeOf(start), TimeOf(end))

\* librosa.frames_to_time of frames 0 .. n-1
FrameTimes(n) == [i \in 1..n |-> TimeOf((i - 1) * FrameMs)]

\* the loop over (time, is_speech) from frame i on, and the handling of an
\* audio that ends during speech
RECURSIVE ScanFrames(_, _, _, _, _, _)
ScanFrames(times, mask, i, in_speech, segment_start, speech_segments) ==
    IF i > Len(mask)
    THEN IF in_speech /\ Len(times) > 0
         THEN Append(speech_segments, Segment(segment_start, times[Len(times)]))
         ELSE speech_segments
    ELSE IF mask[i] /\ ~in_speech
    THEN ScanFrames(times, mask, i + 1, TRUE, times[i], speech_segments)
    ELSE IF ~mask[i] /\ in_speech
    THEN ScanFrames(times, mask, i + 1, FALSE, segment_start,
                    IF TimeLess(TimeOf(MIN_RUN_MS), TimeSub(times[i], segment_start))
                    THEN Append(speech_segments, Segment(segment_start, times[i]))
                    ELSE speech_segments)
    ELSE ScanFrames(times, mask, i + 1, in_speech, segment_start, speech_segments)

\* the continuous speech runs of the smoothed mask
FindSpeechRuns(times, mask) == ScanFrames(times, mask, 1, FALSE, TimeOf(0), << >>)

\* MergeInto with a gap of 0.2 s, as the doubles give it, merged as well
RECURSIVE MergeIntoInclusive(_, _, _)
MergeIntoInclusive(current_segment, rest, merged_segments) ==
    IF rest = << >> THEN Append(merged_segments, current_segment)
    ELSE LET next_segment == Head(rest)
             gap == TimeSub(next_segment.start, current_segment.end)
         IN  IF ~TimeLess(TimeOf(MERGE_GAP_MS), gap)
             THEN MergeIntoInclusive(Segment(current_segment.start, next_segment.end),
                                     Tail(rest), merged_segments)
             ELSE MergeIntoInclusive(next_segment, Tail(rest),
                                     Append(merged_segments, current_segment))

\* MergeInto with no segment ever absorbed
RECURSIVE MergeIntoNothing(_, _, _)
MergeIntoNothing(current_segment, rest, merged_segments) ==
    IF rest = << >> THEN Append(merged_segments, current_segment)
    ELSE MergeIntoNothing(Head(rest), Tail(rest),
                          Append(merged_segments, current_segment))

\* the merge loop: current_segment absorbs the next segment when the gap to
\* it is below 0.2 s, else it is emitted and the next one becomes current
RECURSIVE MergeInto(_, _, _)
MergeInto(current_segment, rest, merged_segments) ==
    IF rest = << >> THEN Append(merged_segments, current_segment)
    ELSE LET next_segment == Head(rest)
             gap == TimeSub(next_segment.start, current_segment.end)
         IN  IF TimeLess(gap, TimeOf(MERGE_GAP_MS))
             THEN MergeInto(Segment(current_segment.start, next_segment.end),
                            Tail(rest), merged_segments)
             ELSE MergeInto(next_segment, Tail(rest),
                            Append(merged_segments, current_segment))

\* the tail of detect_speech_segments: "merged_segments if merged_segments
\* else speech_segments"
MergeSegments(speech_segments) ==
    LET merged_segments == IF speech_segments = << >> THEN << >>
                           ELSE MergeInto(Head(speech_segments),
                                          Tail(speech_segments), << >>)
    IN  IF merged_segments # << >> THEN merged_segments ELSE speech_segments

\* the smoothed masks
SpeechMasks == [1..NumFrames -> BOOLEAN]

\* longer recordings enter after the scan: lists of up to three runs with
\* their boundaries on these instants (ms), every run but the last above
\* 0.2 s.  0.6 - 0.4 is below 0.2 in doubles, 2.2 - 2.0 is above it.
RunInstants == {0, 400, 600, 1900, 2000, 2050, 2200, 4000}

RunLists ==
    LET Runs == {SegmentMs(a, b) : a, b \in RunInstants}
        Ordered(l) == /\ \A i \in 1..Len(l) : l[i].start.ms < l[i].end.ms
                      /\ \A i \in 1..Len(l) - 1 :
                             /\ l[i].end.ms < l[i + 1].start.ms
                             /\ TimeLess(TimeOf(MIN_RUN_MS), l[i].duration)
    IN  {l \in SeqsUpTo(Runs, 3) : Ordered(l)}

SegmentsInit ==
    /\ OrchAtRest
    /\ sim = [s |-> IdleSim, log |-> << >>]
    /\ calc = IdleCalc
    /\ call \in {[fn |-> "detect_speech_segments", at |-> "mask", mask |-> mask,
                   runs |-> << >>, output |-> << >>] : mask \in SpeechMasks}
                \cup
                {[fn |-> "detect_speech_segments", at |-> "runs", mask |-> << >>,
                   runs |-> l, output |-> << >>] : l \in RunLists}

\* detect_speech_segments up to the end of its scan of the mask
ScanSpeechMask ==
    /\ call.fn = "detect_speech_segments" /\ call.at = "mask"
    /\ call' = [call EXCEPT !.at = "runs",
                            !.runs = FindSpeechRuns(FrameTimes(Len(call.mask)), call.mask)]
    /\ UNCHANGED << orchVars, sim, calc >>

\* the merge of close segments and the return
MergeCloseSegments ==
    /\ call.fn = "detect_speech_segments" /\ call.at = "runs"
    /\ call' = [call EXCEPT !.at = "done", !.output = MergeSegments(call.runs)]
    /\ UNCHANGED << orchVars, sim, calc >>

SegmentsNext == ScanSpeechMask \/ MergeCloseSegments

SegmentsSpec == SegmentsInit /\ [][SegmentsNext]_vars

(* ----------------- ImprovedVoiceAnalyzer: pauses ----------------------- *)

\* __init__: the thresholds of a pause sensitivity
PauseThresholds(pause_sensitivity) ==
    IF pause_sensitivity = "low"
    THEN [min_pause_duration |-> TimeOf(6000), long_pause_threshold |-> TimeOf(10000),
          medium_pause_threshold |-> TimeOf(7000)]
    ELSE IF pause_sensitivity = "high"
    THEN [min_pause_duration |-> TimeOf(2000), long_pause_threshold |-> TimeOf(5000),
          medium_pause_threshold |-> TimeOf(3000)]
    ELSE [min_pause_duration |-> TimeOf(4000), long_pause_threshold |-> TimeOf(7000),
          medium_pause_threshold |-> TimeOf(5000)]

\* _parse_transcript_timeline: a raw turn is its role, whether its content
\* holds the word "session", and its timestamp in ms after the first turn's;
\* start_time is 0.0 or a total_seconds(), a turn lasts until the next
\* turn's timestamp, the last one 1.0 s, and end_time is their sum
ParseTranscriptTimeline(turns) ==
    [i \in 1..Len(turns) |->
        LET relative_time == TimeOf(turns[i].timestamp)
            duration == IF i < Len(turns)
                        THEN TimeOf(turns[i + 1].timestamp - turns[i].timestamp)
                        ELSE TimeOf(1000)
        IN  [role |-> turns[i].role, session |-> turns[i].session,
             start_time |-> relative_time,
             end_time |-> TimeAdd(relative_time, duration)]]

\* method 1 of detect_pauses: the gap after speech segment i, classified
GapPause(th, current_segment, next_segment) ==
    LET gap_duration == TimeSub(next_segment.start, current_segment.end)
        long == TimeLess(th.long_pause_threshold, gap_duration)
        medium == TimeLess(th.medium_pause_threshold, gap_duration)
    IN  IF ~TimeLess(gap_duration, th.min_pause_duration)
        THEN << [start_time |-> current_segment.end,
                 end_time |-> next_segment.start,
                 duration |-> gap_duration,
                 type |-> IF long THEN "long_pause"
                          ELSE IF medium THEN "medium_pause" ELSE "short_pause",
                 severity |-> IF long THEN "high"
                              ELSE IF medium THEN "medium" ELSE "low"] >>
        ELSE << >>

RECURSIVE GapPauses(_, _, _)
GapPauses(th, speech_segments, i) ==
    IF i > Len(speech_segments) - 1 THEN << >>
    ELSE GapPause(th, speech_segments[i], speech_segments[i + 1])
         \o GapPauses(th, speech_segments, i + 1)

\* DetectEnhancedPauses with the pause starting where the energy has
\* dropped, 0.6 s into the gap
RECURSIVE DetectEnhancedPausesLateStart(_, _, _, _)
DetectEnhancedPausesLateStart(th, speech_segments, energy_drop, i) ==
    IF Len(speech_segments) < 2 \/ i > Len(speech_segments) - 1 THEN << >>
    ELSE LET gap_start == TimeAdd(speech_segments[i].end, TimeOf(600))
             gap_end == speech_segments[i + 1].start
             gap_duration == TimeSub(gap_end, gap_start)
         IN  (IF ~TimeLess(gap_duration, th.min_pause_duration) /\ energy_drop[i]
              THEN << [start_time |-> gap_start, end_time |-> gap_end,
                       duration |-> gap_duration, type |-> "enhanced_speech_gap",
                       severity |-> IF TimeLess(TimeOf(5000), gap_duration)
                                    THEN "high" ELSE "medium"] >>
              ELSE << >>)
             \o DetectEnhancedPausesLateStart(th, speech_segments, energy_drop, i + 1)

\* _detect_enhanced_pauses: energy_drop[i] tells whether the energy of the
\* audio in the gap after segment i varies enough
RECURSIVE DetectEnhancedPauses(_, _, _, _)
DetectEnhancedPauses(th, speech_segments, energy_drop, i) ==
    IF Len(speech_segments) < 2 \/ i > Len(speech_segments) - 1 THEN << >>
    ELSE LET gap_start == speech_segments[i].end
             gap_end == speech_segments[i + 1].start
             gap_duration == TimeSub(gap_end, gap_start)
         IN  (IF ~TimeLess(gap_duration, th.min_pause_duration) /\ energy_drop[i]
              THEN << [start_time |-> gap_start, end_time |-> gap_end,
                       duration |-> gap_duration, type |-> "enhanced_speech_gap",
                       severity |-> IF TimeLess(TimeOf(5000), gap_duration)
                                    THEN "high" ELSE "medium"] >>
              ELSE << >>)
             \o DetectEnhancedPauses(th, speech_segments, energy_drop, i + 1)

\* DetectTranscriptBasedPauses with every positive gap reported
RECURSIVE TranscriptPausesAnyGap(_, _, _)
TranscriptPausesAnyGap(th, conversation_turns, i) ==
    IF i > Len(conversation_turns) - 1 THEN << >>
    ELSE LET current_turn == conversation_turns[i]
             next_turn == conversation_turns[i + 1]
             gap == TimeSub(next_turn.start_time, current_turn.end_time)
         IN  (IF TimeLess(TimeOf(0), gap)
              THEN << [start_time |-> current_turn.end_time,
                       end_time |-> next_turn.start_time,
                       duration |-> gap,
                       type |-> IF /\ current_turn.role = "USER"
                                   /\ next_turn.role \in {"AGENT_SPEECH", "AGENT"}
                                THEN "agent_delay" ELSE "conversation_pause",
                       severity |-> IF TimeLess(TimeOf(5000), gap)
                                    THEN "high" ELSE "medium"] >>
              ELSE << >>)
             \o TranscriptPausesAnyGap(th, conversation_turns, i + 1)

\* the loop of _detect_transcript_based_pauses over the turns that do not
\* mention "session"
RECURSIVE TranscriptPauses(_, _, _)
TranscriptPauses(th, conversation_turns, i) ==
    IF i > Len(conversation_turns) - 1 THEN << >>
    ELSE LET current_turn == conversation_turns[i]
             next_turn == conversation_turns[i + 1]
             gap == TimeSub(next_turn.start_time, current_turn.end_time)
         IN  (IF ~TimeLess(gap, th.min_pause_duration)
              THEN << [start_time |-> current_turn.end_time,
                       end_time |-> next_turn.start_time,
                       duration |-> gap,
                       type |-> IF /\ current_turn.role = "USER"
                                   /\ next_turn.role \in {"AGENT_SPEECH", "AGENT"}
                                THEN "agent_delay" ELSE "conversation_pause",
                       severity |-> IF TimeLess(TimeOf(5000), gap)
                                    THEN "high" ELSE "medium"] >>
              ELSE << >>)
             \o TranscriptPauses(th, conversation_turns, i + 1)

DetectTranscriptBasedPauses(th, conversation_timeline) ==
    TranscriptPauses(th, SelectSeq(conversation_timeline, LAMBDA t : ~t.session), 1)

\* abs(x - y) < 0.5 of two times
Within500(x, y) == TimeLess(TimeAbs(TimeSub(x, y)), TimeOf(500))

\* DeduplicatePausesFrom with nothing dropped
DeduplicatePausesKeepAll(pauses, unique_pauses) == unique_pauses \o pauses

\* DeduplicatePausesFrom with each pause compared with the last kept one only
RECURSIVE DeduplicatePausesLastOnly(_, _)
DeduplicatePausesLastOnly(pauses, unique_pauses) ==
    IF pauses = << >> THEN unique_pauses
    ELSE LET pause == Head(pauses)
             n == Len(unique_pauses)
             is_duplicate ==
                 /\ n > 0
                 /\ Within500(pause.start_time, unique_pauses[n].start_time)
                 /\ Within500(pause.duration, unique_pauses[n].duration)
         IN  DeduplicatePausesLastOnly(Tail(pauses),
                                       IF is_duplicate THEN unique_pauses
                                       ELSE Append(unique_pauses, pause))

\* _deduplicate_pauses: a pause is dropped when one already kept starts
\* within 0.5 s of it and lasts within 0.5 s of it
RECURSIVE DeduplicatePausesFrom(_, _)
DeduplicatePausesFrom(pauses, unique_pauses) ==
    IF pauses = << >> THEN unique_pauses
    ELSE LET pause == Head(pauses)
             is_duplicate ==
                 \E k \in 1..Len(unique_pauses) :
                     /\ Within500(pause.start_time, unique_pauses[k].start_time)
                     /\ Within500(pause.duration, unique_pauses[k].duration)
         IN  DeduplicatePausesFrom(Tail(pauses),
                                   IF is_duplicate THEN unique_pauses
                                   ELSE Append(unique_pauses, pause))

DeduplicatePauses(pauses) == DeduplicatePausesFrom(pauses, << >>)

\* sorted(unique_pauses, key=start_time): ascending and stable
RECURSIVE InsertByStart(_, _)
InsertByStart(sorted, pause) ==
    IF sorted = << >> THEN << pause >>
    ELSE IF TimeLess(pause.start_time, Head(sorted).start_time)
    THEN << pause >> \o sorted
    ELSE << Head(sorted) >> \o InsertByStart(Tail(sorted), pause)

RECURSIVE SortedByStart(_)
SortedByStart(pauses) ==
    IF pauses = << >> THEN << >>
    ELSE InsertByStart(SortedByStart(SubSeq(pauses, 1, Len(pauses) - 1)),
                       pauses[Len(pauses)])

\* the thresholds detect_pauses works with: those of the instance, the
\* minimum being the min_pause_duration argument unless that is None
ThresholdsInForce(pause_sensitivity, min_pause_duration) ==
    LET self == PauseThresholds(pause_sensitivity)
    IN  [self EXCEPT !.min_pause_duration =
                         OrElse(min_pause_duration, self.min_pause_duration)]

\* detect_pauses(min_pause_duration): the three methods with the minimum
\* in force, de-duplication and the sort
DetectPauses(pause_sensitivity, min_pause_duration, speech_segments, energy_drop, conversation_timeline) ==
    LET th == ThresholdsInForce(pause_sensitivity, min_pause_duration)
        pauses == GapPauses(th, speech_segments, 1)
                  \o (IF Len(speech_segments) > 0
                      THEN DetectEnhancedPauses(th, speech_segments, energy_drop, 1)
                      ELSE << >>)
                  \o (IF conversation_timeline # << >>
                      THEN DetectTranscriptBasedPauses(th, conversation_timeline)
                      ELSE << >>)
    IN  SortedByStart(DeduplicatePauses(pauses))

\* detect_pauses alone: the analyzer is built on a transcript of at most
\* MaxTranscriptTurns turns, and detect_pauses runs on the speech segments
\* found in the audio, energy_drop telling of each gap between them
MaxTranscriptTurns == 3

\* the min_pause_duration detect_pauses is called with: None, as
\* analyze_conversation calls it, or 0.4 s, below every sensitivity's minimum
MinPauseArguments == {None, Some(TimeOf(400))}

\* the boundaries (ms) of the speech segments: 4.512 - 0.512 is below 4.0
\* in doubles, 9.0 - 5.0 is 4.0
PauseInstants == {0, 512, 4512, 5000, 9000, 9500}

\* the timestamps (ms after the first) of the turns: 4.012 - (0.0 + 0.012)
\* is below 4.0 in doubles, 10.512 - (0.0 + 4.012) is above 6.5
TurnInstants == {0, 12, 4012, 10512}

SpeechSegmentLists ==
    LET Segs == {SegmentMs(a, b) : a, b \in PauseInstants}
        Ordered(l) == /\ \A i \in 1..Len(l) : l[i].start.ms < l[i].end.ms
                      /\ \A i \in 1..Len(l) - 1 : l[i].end.ms < l[i + 1].start.ms
    IN  {l \in SeqsUpTo(Segs, 3) : Ordered(l)}
        \cup {<< SegmentMs(0, 2000), SegmentMs(6500, 8000) >>}

\* the timestamps of n turns, the first at 0 and each later than the last
TurnTimestamps(n) ==
    {ts \in [1..n -> TurnInstants] :
        /\ n > 0 => ts[1] = 0
        /\ \A i \in 1..n - 1 : ts[i] < ts[i + 1]}

Transcripts ==
    UNION {{[i \in 1..n |-> [role |-> roles[i], session |-> sessions[i],
                              timestamp |-> ts[i]]] :
                roles \in [1..n -> {"USER", "AGENT", "AGENT_SPEECH"}],
                sessions \in [1..n -> BOOLEAN],
                ts \in TurnTimestamps(n)} :
           n \in 0..MaxTranscriptTurns}

PausesInit ==
    /\ OrchAtRest
    /\ sim = [s |-> IdleSim, log |-> << >>]
    /\ calc = IdleCalc
    /\ \E segs \in SpeechSegmentLists, min \in MinPauseArguments :
           call \in {[fn |-> "detect_pauses", at |-> "init",
                      pause_sensitivity |-> ps, min_pause_duration |-> min,
                      turns |-> turns, conversation_timeline |-> << >>,
                      speech_segments |-> segs, energy_drop |-> drop,
                      output |-> << >>] :
                         ps \in {"low", "normal", "high"}, turns \in Transcripts,
                         drop \in [1..Max(0, Len(segs) - 1) -> BOOLEAN]}

\* __init__: the timeline is parsed from the transcript
ParseTimeline ==
    /\ call.fn = "detect_pauses" /\ call.at = "init"
    /\ call' = [call EXCEPT !.at = "ready",
                            !.conversation_timeline = ParseTranscriptTimeline(call.turns)]
    /\ UNCHANGED << orchVars, sim, calc >>

RunDetectPauses ==
    /\ call.fn = "detect_pauses" /\ call.at = "ready"
    /\ call' = [call EXCEPT !.at = "done",
                            !.output = DetectPauses(call.pause_sensitivity,
                                                    call.min_pause_duration,
                                                    call.speech_segments,
                                                    call.energy_drop,
                                                    call.conversation_timeline)]
    /\ UNCHANGED << orchVars, sim, calc >>

PausesNext == ParseTimeline \/ RunDetectPauses

PausesSpec == PausesInit /\ [][PausesNext]_vars

(* --------------- ImprovedVoiceAnalyzer: de-duplication ------------------ *)

\* _deduplicate_interruptions: an interruption is dropped when one already
\* kept lies within 0.1 s of it
RECURSIVE DeduplicateInterruptionsFrom(_, _)
DeduplicateInterruptionsFrom(interruptions, unique_interruptions) ==
    IF interruptions = << >> THEN unique_interruptions
    ELSE LET interruption == Head(interruptions)
             is_duplicate ==
                 \E k \in 1..Len(unique_interruptions) :
                     TimeLess(TimeAbs(TimeSub(interruption.time,
                                              unique_interruptions[k].time)),
                              TimeOf(100))
         IN  DeduplicateInterruptionsFrom(Tail(interruptions),
                                          IF is_duplicate THEN unique_interruptions
                                          ELSE Append(unique_interruptions, interruption))

DeduplicateInterruptions(interruptions) ==
    DeduplicateInterruptionsFrom(interruptions, << >>)

\* The two passes alone, each run on a list and then on its own output.
\* 0.7 - 0.2 is below 0.5 in doubles and 0.3 - 0.2 below 0.1; 0.5 - 0.0 and
\* 0.1 - 0.0 are not.
MaxDedupLen == 3

DedupPauses ==
    {[start_time |-> TimeOf(st), end_time |-> TimeOf(st + d), duration |-> TimeOf(d),
      type |-> ty, severity |-> "low"] :
         st \in {0, 200, 500, 700}, d \in {4000, 4200, 4700},
         ty \in {"short_pause"}}

DedupInterruptions ==
    {[time |-> TimeOf(t), gap_duration |-> TimeOf(250), type |-> ty,
      severity |-> "medium"] :
         t \in {0, 100, 200, 300}, ty \in {"audio_overlap", "rapid_response"}}

DedupInit ==
    /\ OrchAtRest
    /\ sim = [s |-> IdleSim, log |-> << >>]
    /\ calc = IdleCalc
    /\ call \in {[fn |-> fn, at |-> "input", input |-> l, once |-> << >>,
                   twice |-> << >>] :
                      fn \in {"_deduplicate_pauses"},
                      l \in SeqsUpTo(DedupPauses, MaxDedupLen)}
                \cup
                {[fn |-> fn, at |-> "input", input |-> l, once |-> << >>,
                   twice |-> << >>] :
                      fn \in {"_deduplicate_interruptions"},
                      l \in SeqsUpTo(DedupInterruptions, MaxDedupLen)}

DedupPass(fn, l) ==
    IF fn = "_deduplicate_pauses" THEN DeduplicatePauses(l)
    ELSE DeduplicateInterruptions(l)

DedupOnce ==
    /\ call.fn \in {"_deduplicate_pauses", "_deduplicate_interruptions"}
    /\ call.at = "input"
    /\ call' = [call EXCEPT !.at = "once", !.once = DedupPass(call.fn, call.input)]
    /\ UNCHANGED << orchVars, sim, calc >>

DedupTwice ==
    /\ call.fn \in {"_deduplicate_pauses", "_deduplicate_interruptions"}
    /\ call.at = "once"
    /\ call' = [call EXCEPT !.at = "twice", !.twice = DedupPass(call.fn, call.once)]
    /\ UNCHANGED << orchVars, sim, calc >>

DedupNext == DedupOnce \/ DedupTwice

DedupSpec == DedupInit /\ [][DedupNext]_vars

(* ------------- ImprovedVoiceAnalyzer: call termination ------------------ *)

\* the flags of the transcript analysis before anything is found
NoTranscriptAnalysis ==
    [session_started_properly |-> FALSE, session_ended_properly |-> FALSE,
     duplicate_endings |-> FALSE, last_speaker_was_user |-> FALSE]

\* _analyze_transcript_termination: a turn of the timeline is its role and
\* what its lower-cased content holds: 'session started' (session_started),
\* 'session ended' (session_ended), the word 'session' (session).  Each is
\* looked for on its own, and a turn can hold both phrases.
AnalyzeTranscriptTermination(conversation_timeline) ==
    IF conversation_timeline = << >> THEN NoTranscriptAnalysis
    ELSE LET first_turn == conversation_timeline[1]
             session_end_count ==
                 Cardinality({i \in 1..Len(conversation_timeline) :
                                 conversation_timeline[i].session_ended})
             conversation_turns ==
                 SelectSeq(conversation_timeline, LAMBDA t : ~t.session)
         IN  [session_started_properly |-> first_turn.session_started,
              session_ended_properly |-> session_end_count > 0,
              duplicate_endings |-> session_end_count > 1,
              last_speaker_was_user |->
                  /\ conversation_turns # << >>
                  /\ conversation_turns[Len(conversation_turns)].role = "USER"]

\* the audio part of detect_call_termination_issues: abrupt_ending and the
\* issues, in the order they are appended
AudioTermination(duration, speech_segments) ==
    IF speech_segments = << >> THEN [abrupt_ending |-> FALSE, issues |-> << >>]
    ELSE LET last_segment == speech_segments[Len(speech_segments)]
             silence_at_end == TimeSub(duration, last_segment.end)
             short_last == /\ TimeLess(silence_at_end, TimeOf(1000))
                           /\ TimeLess(last_segment.duration, TimeOf(500))
         IN  [abrupt_ending |-> TimeLess(silence_at_end, TimeOf(200)) \/ short_last,
              issues |->
                  (IF TimeLess(TimeOf(10000), silence_at_end)
                   THEN << "Very long silence at end" >>
                   ELSE IF TimeLess(TimeOf(5000), silence_at_end)
                   THEN << "Long silence at end" >>
                   ELSE IF TimeLess(silence_at_end, TimeOf(200))
                   THEN << "Very abrupt audio ending - possible cutoff" >>
                   ELSE << >>)
                  \o (IF short_last
                      THEN << "Last speech segment very short - possible cutoff" >>
                      ELSE << >>)]

\* DetectCallTerminationIssues with the short last segment reported whatever
\* the silence after it
DetectCallTerminationIssuesAnySilence(duration, speech_segments, conversation_timeline) ==
    LET audio == AudioTermination(duration, speech_segments)
        short == /\ speech_segments # << >>
                 /\ TimeLess(speech_segments[Len(speech_segments)].duration, TimeOf(500))
        text == "Last speech segment very short - possible cutoff"
        transcript ==
            IF conversation_timeline # << >>
            THEN AnalyzeTranscriptTermination(conversation_timeline)
            ELSE NoTranscriptAnalysis
    IN  [session_started_properly |-> transcript.session_started_properly,
         session_ended_properly |-> transcript.session_ended_properly,
         abrupt_ending |-> audio.abrupt_ending \/ short,
         duplicate_endings |-> transcript.duplicate_endings,
         last_speaker_was_user |-> transcript.last_speaker_was_user,
         issues |-> IF short /\ \A i \in 1..Len(audio.issues) : audio.issues[i] # text
                    THEN Append(audio.issues, text) ELSE audio.issues]

\* detect_call_termination_issues: the audio analysis, then the flags of the
\* transcript analysis written over the defaults when there is a timeline
DetectCallTerminationIssues(duration, speech_segments, conversation_timeline) ==
    LET audio == AudioTermination(duration, speech_segments)
        transcript ==
            IF conversation_timeline # << >>
            THEN AnalyzeTranscriptTermination(conversation_timeline)
            ELSE NoTranscriptAnalysis
    IN  [session_started_properly |-> transcript.session_started_properly,
         session_ended_properly |-> transcript.session_ended_properly,
         abrupt_ending |-> audio.abrupt_ending,
         duplicate_endings |-> transcript.duplicate_endings,
         last_speaker_was_user |-> transcript.last_speaker_was_user,
         issues |-> audio.issues]

\* detect_call_termination_issues alone, on drawn speech segments, audio
\* durations (len(audio) / sr, a whole number of ms here) that end so many
\* ms after the last of them, and timelines of at most MaxTimelineTurns
\* turns.  1.7 - 1.5 is below 0.2 in doubles, 2.2 - 2.0 above it.
MaxTimelineTurns == 2

TerminationInstants == {0, 300, 1000, 1499, 1500, 2000}

SilencesAtEnd == {0, 199, 200, 999, 1000, 5000, 5001, 10000, 10001}

TerminationSegmentLists ==
    LET Segs == {SegmentMs(a, b) : a, b \in TerminationInstants}
        Ordered(l) == /\ \A i \in 1..Len(l) : l[i].start.ms < l[i].end.ms
                      /\ \A i \in 1..Len(l) - 1 :
                             /\ l[i].end.ms < l[i + 1].start.ms
                             /\ ~TimeLess(TimeSub(l[i + 1].start, l[i].end),
                                          TimeOf(MERGE_GAP_MS))
    IN  {l \in SeqsUpTo(Segs, 2) : Ordered(l)}

\* the turns of a timeline: a content that holds one of the two phrases
\* holds the word 'session'
TerminationTurns ==
    {t \in [role : {"USER", "AGENT"}, session_started : BOOLEAN,
            session_ended : BOOLEAN, session : BOOLEAN] :
        (t.session_started \/ t.session_ended) => t.session}

TerminationTimelines == SeqsUpTo(TerminationTurns, MaxTimelineTurns)

TerminationInit ==
    /\ OrchAtRest
    /\ sim = [s |-> IdleSim, log |-> << >>]
    /\ calc = IdleCalc
    /\ call \in {[fn |-> "detect_call_termination_issues", at |-> "input",
                   speech_segments |-> segs,
                   duration |-> TimeOf((IF segs = << >> THEN 0
                                        ELSE segs[Len(segs)].end.ms) + silence),
                   conversation_timeline |-> timeline,
                   output |-> << >>] :
                      segs \in TerminationSegmentLists, silence \in SilencesAtEnd,
                      timeline \in TerminationTimelines}

AnalyzeTermination ==
    /\ call.fn = "detect_call_termination_issues" /\ call.at = "input"
    /\ call' = [call EXCEPT !.at = "done",
                            !.output = DetectCallTerminationIssues(
                                           call.duration, call.speech_segments,
                                           call.conversation_timeline)]
    /\ UNCHANGED << orchVars, sim, calc >>

TerminationNext == AnalyzeTermination

TerminationSpec == TerminationInit /\ [][TerminationNext]_vars

(* ----------------- repeated execute requests --------------------------- *)

\* POST /comparisons/{id}/execute may be called again on the same
\* comparison.  Each request starts a background execution of its own; the
\* rows they add to agent_comparison_runs and agent_comparison_aggregates
\* are kept here as sets, a row being named by the execution that added it
\* (its uuid), its agent and, for a run, its simulation number.
MaxExecutions == 2

Executions == 1..MaxExecutions

IdleExecution == [at |-> "idle", store_idx |-> 0]

ExecInit ==
    /\ OrchAtRest
    /\ sim = [s |-> IdleSim, log |-> << >>]
    /\ calc = IdleCalc
    /\ call = [fn |-> "execute_comparison", at |-> "serving",
               status |-> "pending",
               exec |-> [e \in Executions |-> IdleExecution],
               runs |-> {}, aggregates |-> {}]

Serving == call.fn = "execute_comparison"

\* the endpoint: the comparison exists and its scenario is valid, so the
\* background task is created, whatever the comparison's status
ExecuteRequestFor(e) ==
    /\ Serving
    /\ call.exec[e].at = "idle"
    /\ \A d \in Executions : d < e => call.exec[d].at # "idle"
    /\ call' = [call EXCEPT !.exec[e].at = "created"]
    /\ UNCHANGED << orchVars, sim, calc >>

\* execute_comparison up to the gather of the agents' simulations
BeginExecution(e) ==
    /\ Serving
    /\ call.exec[e].at = "created"
    /\ call' = [call EXCEPT !.exec[e].at = "running_simulations",
                            !.status = "running"]
    /\ UNCHANGED << orchVars, sim, calc >>

\* _run_single_simulation of execution e for task t: a run row with a fresh
\* run_id is added.  The tasks of an agent enter its semaphore in
\* simulation order, so fewer than max_concurrent earlier simulations of the
\* agent are still without their row
RunSingleSimulation(e, t) ==
    /\ Serving
    /\ call.exec[e].at = "running_simulations"
    /\ << e, t[1], t[2] >> \notin call.runs
    /\ Cardinality({n \in 1..(t[2] - 1) : << e, t[1], n >> \notin call.runs})
           < MaxConcurrent
    /\ call' = [call EXCEPT !.runs = @ \cup {<< e, t[1], t[2] >>}]
    /\ UNCHANGED << orchVars, sim, calc >>

\* every simulation of execution e returned to gather
GatherReturns(e) ==
    /\ Serving
    /\ call.exec[e].at = "running_simulations"
    /\ \A t \in Tasks : << e, t[1], t[2] >> \in call.runs
    /\ call' = [call EXCEPT !.exec[e].at = "aggregating"]
    /\ UNCHANGED << orchVars, sim, calc >>

\* _store_aggregate_result for the next agent: an aggregate row with a fresh
\* aggregate_id is added
StoreAggregateRow(e) ==
    /\ Serving
    /\ call.exec[e].at = "aggregating"
    /\ call.exec[e].store_idx < Len(AgentOrder)
    /\ call' = [call EXCEPT !.exec[e].store_idx = @ + 1,
                            !.aggregates = @ \cup {<< e, AgentOrder[call.exec[e].store_idx + 1] >>}]
    /\ UNCHANGED << orchVars, sim, calc >>

\* aggregate_comparison_results and the return
FinishExecution(e) ==
    /\ Serving
    /\ call.exec[e].at = "aggregating"
    /\ call.exec[e].store_idx = Len(AgentOrder)
    /\ call' = [call EXCEPT !.exec[e].at = "done", !.status = "completed"]
    /\ UNCHANGED << orchVars, sim, calc >>

ExecNext ==
    \E e \in Executions :
        \/ ExecuteRequestFor(e)
        \/ BeginExecution(e)
        \/ \E t \in Tasks : RunSingleSimulation(e, t)
        \/ GatherReturns(e)
        \/ StoreAggregateRow(e)
        \/ FinishExecution(e)

ExecSpec == ExecInit /\ [][ExecNext]_vars

(* -------------- ImprovedVoiceAnalyzer: audio interruptions ------------- *)

\* the whole of detect_speech_segments on a speech mask
DetectSpeechSegments(mask) ==
    MergeSegments(FindSpeechRuns(FrameTimes(Len(mask)), mask))

\* _detect_audio_interruptions: energy_spike[i] tells whether the energy in
\* the gap after segment i varies by more than 30 % of the threshold
RECURSIVE AudioInterruptionsFrom(_, _, _)
AudioInterruptionsFrom(speech_segments, energy_spike, i) ==
    IF i > Len(speech_segments) - 1 THEN << >>
    ELSE LET current_segment == speech_segments[i]
             next_segment == speech_segments[i + 1]
             gap == TimeSub(next_segment.start, current_segment.end)
         IN  (IF TimeLess(gap, TimeOf(300)) /\ energy_spike[i]
              THEN << [time |-> next_segment.start, gap_duration |-> gap,
                       type |-> "audio_overlap",
                       severity |-> IF TimeLess(gap, TimeOf(100))
                                    THEN "high" ELSE "medium"] >>
              ELSE << >>)
             \o AudioInterruptionsFrom(speech_segments, energy_spike, i + 1)

DetectAudioInterruptions(speech_segments, energy_spike) ==
    IF Len(speech_segments) < 2 THEN << >>
    ELSE AudioInterruptionsFrom(speech_segments, energy_spike, 1)

\* _detect_audio_interruptions alone, on every speech mask of NumFrames
\* frames and on the run lists of the segment check
InterruptionsInit ==
    /\ OrchAtRest
    /\ sim = [s |-> IdleSim, log |-> << >>]
    /\ calc = IdleCalc
    /\ call \in {[fn |-> "_detect_audio_interruptions", at |-> "mask", mask |-> mask,
                   runs |-> << >>, energy_spike |-> spike,
                   speech_segments |-> << >>, output |-> << >>] :
                      mask \in SpeechMasks, spike \in [1..2 -> BOOLEAN]}
                \cup
                {[fn |-> "_detect_audio_interruptions", at |-> "runs", mask |-> << >>,
                   runs |-> l, energy_spike |-> spike,
                   speech_segments |-> << >>, output |-> << >>] :
                      l \in RunLists, spike \in [1..2 -> BOOLEAN]}

\* the call of detect_speech_segments, from the mask or from the runs found
DetectSegmentsForInterruptions ==
    /\ call.fn = "_detect_audio_interruptions" /\ call.at \in {"mask", "runs"}
    /\ call' = [call EXCEPT !.at = "segments",
                            !.speech_segments =
                                IF call.at = "mask" THEN DetectSpeechSegments(call.mask)
                                ELSE MergeSegments(call.runs)]
    /\ UNCHANGED << orchVars, sim, calc >>

ScanGapsForInterruptions ==
    /\ call.fn = "_detect_audio_interruptions" /\ call.at = "segments"
    /\ call' = [call EXCEPT !.at = "done",
                            !.output = DetectAudioInterruptions(call.speech_segments,
                                                                 call.energy_spike)]
    /\ UNCHANGED << orchVars, sim, calc >>

InterruptionsNext == DetectSegmentsForInterruptions \/ ScanGapsForInterruptions

InterruptionsSpec == InterruptionsInit /\ [][InterruptionsNext]_vars

(* ------------------------------ fairness -------------------------------- *)

\* the steps of a task that need no external LLM call to return; the task
\* is at a different place for each of them
TaskProgress(t) ==
    \/ AcquireAndStart(t)
    \/ RunInserted(t)
    \/ SimulationTimeout(t)
    \/ CompletionRaises(t)
    \/ SessionClosed(t)

\* What the event loop guarantees: a runnable coroutine is resumed, a free
\* semaphore permit is handed out, a database call handed to a thread
\* returns, and wait_for's timer fires while simulate() is still pending.
\* Nothing makes an external LLM call return.
Fairness ==
    /\ WF_vars(ExecuteRequest)
    /\ WF_vars(StartComparison)
    /\ WF_vars(RejectUnsupported)
    /\ WF_vars(LaunchSimulations)
    /\ \A t \in Tasks : WF_vars(TaskProgress(t))
    /\ \A a \in Agents : WF_vars(AgentJoin(a))
    /\ WF_vars(BeginAggregating)
    /\ WF_vars(StoreAggregateResult)
    /\ WF_vars(AggregateComparisonResults)

\* liveness is examined for the comparison that limits its conversations to
\* one turn and keeps the configured concurrency
FairInit ==
    /\ Init
    /\ advanced_settings = [max_conversation_turns |-> Some(1),
                            max_concurrent_simulations |-> None]

FairSpec == FairInit /\ [][Next]_vars /\ Fairness

(* ------------------------------- claims --------------------------------- *)

Terminal == {"completed", "failed"}

AllSupported == \A a \in Agents : configs[a].supported

\* the simulations that are inside simulator.simulate
Simulating == {t \in Tasks : tpc[t] = "sim"}

\* C1: at every moment the number of simulations running inside
\* simulator.simulate, counted over all agents of the comparison, is at most
\* max_concurrent_simulations (the comparison's override when it has one).
C1_GlobalConcurrencyCap == Cardinality(Simulating) <= PassedMaxConcurrent

\* the runs gather counted for an agent, against the rows of its tasks
CountsMatchRuns(a) ==
    LET agg == aggregated[a][1]
        completed == {t \in TasksOf(a) : run[t].status = "completed"}
        failed == {t \in TasksOf(a) : run[t].status = "failed"}
    IN  /\ agg.successful_simulations = Cardinality(completed)
        /\ agg.failed_simulations =
              (IF completed = {} THEN NumSimulations ELSE Cardinality(failed))
        /\ \A t \in completed : ret[t] = Some(RunMetrics(run[t]))
        /\ completed # {} =>
              agg.stats = AggregateSimulationResults(
                              SelectSeq([n \in 1..NumSimulations |-> ret[<<a, n>>][1]],
                                        LAMBDA r : r.kind = "metrics"))

\* C2: a simulation that raises or times out fails only its own run: the
\* step that fails it changes no other task (none is cancelled, none loses
\* its result) and does not fail the comparison; the agent's aggregate
\* counts exactly the completed runs, with their metrics as they were
\* returned; and a comparison of supported agents never ends failed.
C2_FailureIsolation ==
    /\ [](\A a \in Agents : aggregated[a] # None => CountsMatchRuns(a))
    /\ [](AllSupported => comparison.status # "failed")
    /\ [](AllSupported /\ opc = "done" => comparison.status = "completed")
    /\ [][\A t \in Tasks :
            (run[t].status # "failed" /\ run'[t].status = "failed") =>
                /\ \A u \in Tasks \ {t} :
                      /\ tpc'[u] = tpc[u] /\ tsim'[u] = tsim[u]
                      /\ run'[u] = run[u] /\ ret'[u] = ret[u]
                /\ comparison' = comparison]_vars

\* one run failed, its sibling of the same agent completed and was
\* aggregated, and the comparison completed
C2_Witness ==
    /\ comparison.status = "completed"
    /\ run[<<"a1", 1>>].status = "failed"
    /\ run[<<"a1", 2>>].status = "completed"
    /\ aggregated["a1"][1].successful_simulations = 1
    /\ \E t \in TasksOf("a2") : run[t].status = "completed"

RowsOf(a) == {i \in 1..Len(aggregates) : aggregates[i].agent_id = a}

AllFailed(a) == \A t \in TasksOf(a) : run[t].status = "failed"

\* C3: a comparison that ran ends with one aggregate row per requested
\* agent; an agent all of whose simulations failed has its row too, with
\* successful_simulations = 0 and failed_simulations = num_simulations.
C3_OneAggregatePerAgent ==
    comparison.status = "completed" =>
        /\ Len(aggregates) = Cardinality(Agents)
        /\ \A a \in Agents :
              /\ Cardinality(RowsOf(a)) = 1
              /\ AllFailed(a) =>
                    \A i \in RowsOf(a) :
                        /\ aggregates[i].successful_simulations = 0
                        /\ aggregates[i].failed_simulations = NumSimulations

\* completed, with every simulation of a2 failed and one of a1 completed
C3_Witness ==
    /\ comparison.status = "completed"
    /\ AllFailed("a2")
    /\ ~AllFailed("a1")
    /\ Len(aggregates) = 2

\* C4: with an unsupported config among the resolved ones, no simulation
\* task is launched, no run row and no aggregate row is ever created, and
\* the execution ends with the comparison failed and an error message.
C4_UnsupportedFailsEarly ==
    (\E a \in Agents : ~configs[a].supported) =>
        /\ \A t \in Tasks : tpc[t] = "idle" /\ run[t] = NoRun /\ ret[t] = None
        /\ aggregates = << >>
        /\ comparison.status # "completed"
        /\ opc = "done" => comparison.status = "failed" /\ comparison.error_message

\* the execution of a comparison with one unsupported agent has ended
C4_Witness ==
    /\ ~configs["a2"].supported
    /\ configs["a1"].supported
    /\ opc = "done"
    /\ comparison.status = "failed"

\* C5: an agent's results are aggregated only once every one of its tasks
\* has returned or raised, and the ranking is computed only once the
\* aggregate of every agent is stored.
C5_JoinBeforeAggregateBeforeRank ==
    /\ \A a \in Agents :
          aggregated[a] # None =>
              \A t \in TasksOf(a) : tpc[t] \in {"returned", "raised"} /\ ret[t] # None
    /\ aggregates # << >> => \A a \in Agents : aggregated[a] # None
    /\ comparison.results # None => \A a \in Agents : RowsOf(a) # {}

\* a1 is aggregated while a task of a2 is still inside simulate
C5_Witness ==
    /\ aggregated["a1"] # None
    /\ \E t \in TasksOf("a2") : tpc[t] = "sim"
    /\ aggregated["a2"] = None

\* C6: every started run eventually reaches completed or failed, whatever
\* external call made for it never returns, and so the comparison
\* eventually reaches completed or failed.
C6_EveryRunTerminates ==
    /\ \A t \in Tasks :
          (run[t].status \in {"pending", "running"}) ~> (run[t].status \in Terminal)
    /\ (comparison.status = "running") ~> (comparison.status \in Terminal)

\* C7: a run record starts as pending, only a step of its own task changes
\* its status, and a completed or failed status never changes.
C7_RunStatusLifecycle ==
    [][\A t \in Tasks :
          /\ run[t].status = "none" /\ run'[t].status # "none"
                => run'[t].status = "pending" /\ tpc[t] = "inserting" /\ tpc'[t] = "sim"
          /\ run'[t].status # run[t].status => TaskStep(t)
          /\ run[t].status \in Terminal => run'[t].status = run[t].status]_vars

\* the loop iterations a stand-alone simulation has begun
UserCalls == Cardinality({i \in 1..Len(sim.log) : sim.log[i].call = "user"})

\* the user-turn generator answered None in entry i of the log
NullAt(i) == sim.log[i].call = "user" /\ sim.log[i].null

\* the hangup oracle signalled a hangup in entry i of the log
SignalAt(i) ==
    /\ sim.log[i].call = "hangup"
    /\ CheckHangup(sim.s.hangup_prompt, sim.log[i].reply)

\* C8: when no collaborator raises, simulate begins at most max_turns loop
\* iterations, each of at most three calls, and returns max_turns_reached
\* exactly when max_turns iterations went by with no null user turn and no
\* hangup signal; otherwise it returns user_simulator_ended when a null user
\* turn ended the loop and hangup_logic_triggered when a hangup signal did.
C8_TurnLoopTermination ==
    sim.s.at \notin {"idle", "raised"} =>
        /\ UserCalls <= sim.s.max_turns
        /\ Len(sim.log) <= 3 * sim.s.max_turns
        /\ sim.s.at # "returned" => sim.s.turn_num = UserCalls + (IF sim.s.at = "user" THEN 1 ELSE 0)
        /\ sim.s.at = "returned" =>
              LET n == Len(sim.log)
                  quiet == \A i \in 1..n : ~NullAt(i) /\ ~SignalAt(i)
              IN  /\ sim.s.hangup_reason = "max_turns_reached"
                        <=> (UserCalls = sim.s.max_turns /\ quiet)
                  /\ sim.s.hangup_reason = "user_simulator_ended"
                        <=> (n > 0 /\ NullAt(n))
                  /\ sim.s.hangup_reason = "hangup_logic_triggered"
                        <=> (n > 0 /\ SignalAt(n))

\* the oracle signalled a hangup in the last permitted iteration
C8_Witness ==
    /\ sim.s.at = "returned"
    /\ sim.s.max_turns >= 2
    /\ UserCalls = sim.s.max_turns
    /\ sim.s.hangup_reason = "hangup_logic_triggered"

\* an oracle reply no decision can be read from: the call failed, it has no
\* content, it is JSON but no object, or it is no JSON and holds no keyword
OracleFailure(reply) ==
    \/ reply.kind \in {"call_failed", "no_content", "json_other"}
    \/ reply.kind = "text" /\ ~reply.keyword

\* the simulation goes on after a step: next iteration, or loop exhausted
GoesOn(s, s2) ==
    /\ s2.hangup_reason = "max_turns_reached"
    /\ \/ s2.at = "user" /\ s2.turn_num = s.turn_num + 1
       \/ s2.at = "returned" /\ s.turn_num = s.max_turns

\* C9: the hangup oracle never raises.  With an empty policy text the
\* conversation goes on without an oracle call; a failed call, a reply
\* without content and a reply no decision can be read from mean "continue":
\* none of them fails the simulation or ends the conversation.
C9_OracleNeverRaises ==
    [][/\ sim.s.at = "hangup" =>
            LET reply == sim'.log[Len(sim'.log)].reply
            IN  /\ sim'.s.at # "raised"
                /\ OracleFailure(reply) => GoesOn(sim.s, sim'.s)
       /\ (sim.s.at = "agent" /\ ~sim.s.hangup_prompt /\ sim'.s.at # "raised")
            => GoesOn(sim.s, sim'.s)]_vars

\* the oracle's call failed in one iteration and the conversation reached
\* the next one
C9_Witness ==
    /\ sim.s.at = "user"
    /\ sim.s.turn_num = 2
    /\ \E i \in 1..Len(sim.log) :
          sim.log[i].call = "hangup" /\ sim.log[i].reply.kind = "call_failed"

\* the metrics of a run that are present, their values on the 0-10 scale
\* and their weights in tenths
PresentMetrics(r) ==
    {m \in {"overall_accuracy", "humanlike_rating", "outcome_orientation",
            "total_turns"} : r[m] # None}

MetricValue(r, m) ==
    IF m = "total_turns"
    THEN (IF r.total_turns[1] < SettingsMaxTurns THEN 10 ELSE 0)
    ELSE r[m][1]

MetricWeight(m) == IF m = "total_turns" THEN 1 ELSE 3

RECURSIVE WeightedSum(_, _)
WeightedSum(r, ms) ==
    IF ms = {} THEN 0
    ELSE LET m == CHOOSE x \in ms : TRUE
         IN  MetricWeight(m) * MetricValue(r, m) + WeightedSum(r, ms \ {m})

RECURSIVE WeightSum(_)
WeightSum(ms) ==
    IF ms = {} THEN 0
    ELSE LET m == CHOOSE x \in ms : TRUE
         IN  MetricWeight(m) + WeightSum(ms \ {m})

\* C10: for every subset of present metrics the composite score is the
\* weighted sum of the present metrics divided by the sum of their weights,
\* to the nearest hundredth (0 when nothing is present); it lies in [0, 10];
\* and with a metric missing it is above the sum weighted as if the missing
\* metric were zero.
C10_CompositeRenormalised ==
    calc.at = "done" =>
        LET ms == PresentMetrics(calc.run)
            ws == WeightedSum(calc.run, ms)
            tw == WeightSum(ms)
            d  == 100 * ws - calc.score * tw
        IN  /\ calc.score >= 0 /\ calc.score <= 1000
            /\ tw = 0 => calc.score = 0
            /\ tw > 0 => 2 * d <= tw /\ 2 * d >= -tw
            /\ (tw > 0 /\ tw < 10 /\ ws > 0) => calc.score * 10 > 100 * ws

\* accuracy missing (the judge failed), the rest present
C10_Witness ==
    /\ calc.at = "done"
    /\ calc.run.overall_accuracy = None
    /\ calc.run.humanlike_rating = Some(8)
    /\ calc.run.outcome_orientation = Some(6)
    /\ calc.run.total_turns = Some(1)
    /\ calc.score = 743

(* ------------------------------ C11 ------------------------------------ *)

\* the simulation of task t returned with a hangup_reason other than
\* max_turns_reached
EndedBeforeLimit(t) ==
    tsim[t].hangup_reason \in {"hangup_logic_triggered", "user_simulator_ended"}

\* the composite score of run row r when its hangup term is bonus
CompositeWithBonus(r, bonus) ==
    LET ms == PresentMetrics(r) \ {"total_turns"}
    IN  RoundDiv(100 * (WeightedSum(r, ms) + bonus), WeightSum(ms) + 1)

\* C11: a completed run's composite score holds the hangup bonus (10, weight
\* 0.1) if and only if its simulation ended with hangup_logic_triggered or
\* user_simulator_ended, whichever loop iteration signalled it.
C11_HangupBonusIffEndedEarly ==
    \A t \in Tasks :
        tpc[t] = "returned" =>
            ret[t][1].composite_score =
                Some(CompositeWithBonus(run[t], IF EndedBeforeLimit(t) THEN 10 ELSE 0))

(* ------------------------------ C12 ------------------------------------ *)

\* the agent's runs that completed, and those of them whose simulation
\* ended before the turn limit
CompletedRunsOf(a) == {t \in TasksOf(a) : tpc[t] = "returned"}

EndedEarlyRunsOf(a) == {t \in CompletedRunsOf(a) : EndedBeforeLimit(t)}

\* k of n as a rate to three decimals, in thousandths
RoundedRate(k, n) == RoundDouble(k, n, NearestOff(k, n), 1000)

\* C12: for an agent with at least one successful run, hangup_success_rate
\* is the number of its runs that ended before max_turns over the number of
\* its aggregated runs (to three decimals), and lies in [0,1].
C12_HangupSuccessRate ==
    \A a \in Agents :
        (aggregated[a] # None /\ aggregated[a][1].successful_simulations > 0) =>
            LET rate == aggregated[a][1].stats.hangup_success_rate
            IN  /\ rate # None
                /\ rate[1] >= 0 /\ rate[1] <= 1000
                /\ rate[1] = RoundedRate(Cardinality(EndedEarlyRunsOf(a)),
                                         Cardinality(CompletedRunsOf(a)))

(* ------------------------------ C13 ------------------------------------ *)

\* where the row of an agent stood in the input of the ranking
InputPosition(agent_id) ==
    CHOOSE i \in 1..Len(call.input) : call.input[i].agent_id = agent_id

\* entries x, y of the rankings, x before y, stand in the claimed order
InClaimedOrder(x, y) ==
    LET cx == x.stats.composite_score_mean
        cy == y.stats.composite_score_mean
        lx == x.stats.latency_median_mean
        ly == y.stats.latency_median_mean
    IN  (cx # None /\ cy # None) =>
            /\ ~MeanLess(cx[1], cy[1])
            /\ (MeanEq(cx[1], cy[1]) /\ lx # None /\ ly # None) =>
                   /\ ~MeanLess(ly[1], lx[1])
                   /\ MeanEq(lx[1], ly[1]) =>
                          InputPosition(x.agent_id) < InputPosition(y.agent_id)

\* C13: the rankings are a permutation of the aggregates with ranks 1..n,
\* ordered by composite_score_mean descending; with equal composite_score_mean
\* the lower latency_median_mean ranks first; rows equal in both keep the
\* order they were read in, so the order is a function of the input.
C13_RankingOrder ==
    (call.fn = "rank" /\ call.at = "done" /\ call.input # << >>) =>
        LET n == Len(call.input)
            rankings == call.output.rankings
        IN  /\ Len(rankings) = n
            /\ comparison.results = Some(call.output)
            /\ \A i \in 1..n : rankings[i].rank = i
            /\ \A i \in 1..n : \E j \in 1..n :
                   /\ rankings[j].agent_id = call.input[i].agent_id
                   /\ rankings[j].stats = call.input[i].stats
                   /\ rankings[j].successful_simulations =
                          call.input[i].successful_simulations
            /\ \A i, j \in 1..n :
                   i < j => /\ rankings[i].agent_id # rankings[j].agent_id
                            /\ InClaimedOrder(rankings[i], rankings[j])

\* two agents tie on the composite score (7.0 as 7.0 and as 14.0 / 2); the
\* later one has the lower latency and is ranked first
C13_Witness ==
    /\ call.fn = "rank" /\ call.at = "done" /\ call.input # << >>
    /\ comparison.status = "completed"
    /\ call.input[1].stats.composite_score_mean = Some(Exact(700))
    /\ call.input[1].stats.latency_median_mean = Some(Exact(1200))
    /\ call.input[2].stats.composite_score_mean = Some([num |-> 1400, den |-> 2, err |-> 0])
    /\ call.input[2].stats.latency_median_mean = Some(Exact(800))
    /\ call.input[3].stats.composite_score_mean = Some(Exact(0))
    /\ call.output.rankings[1].agent_id = call.input[2].agent_id
    /\ call.output.rankings[2].agent_id = call.input[1].agent_id
    /\ call.output.rankings[3].agent_id = call.input[3].agent_id

(* ------------------------------ C14 ------------------------------------ *)

\* every simulation of the agent failed / at least one completed
AllRunsFailed(a) == \A t \in TasksOf(a) : tpc[t] = "raised"

SomeRunCompleted(a) == \E t \in TasksOf(a) : tpc[t] = "returned"

\* the rank of an agent in the stored results
RankOf(a) ==
    LET rankings == comparison.results[1].rankings
    IN  rankings[CHOOSE i \in 1..Len(rankings) : rankings[i].agent_id = a].rank

\* C14: when every simulation of one agent failed and another agent has a
\* successful run, the completed comparison's result holds both agents, the
\* failed agent's aggregate has successful_simulations = 0 and every
\* statistic null, and the failed agent is not ranked above the other.
C14_AllFailedAgent ==
    (comparison.status = "completed") =>
        \A a, b \in Agents :
            (AllRunsFailed(a) /\ SomeRunCompleted(b)) =>
                LET rankings == comparison.results[1].rankings
                IN  /\ \E i \in 1..Len(rankings) : rankings[i].agent_id = a
                    /\ \E i \in 1..Len(rankings) : rankings[i].agent_id = b
                    /\ \A i \in 1..Len(aggregates) :
                           aggregates[i].agent_id = a =>
                               /\ aggregates[i].successful_simulations = 0
                               /\ \A k \in DOMAIN aggregates[i].stats :
                                      aggregates[i].stats[k] = None
                    /\ \A i \in 1..Len(rankings) :
                           rankings[i].agent_id = a =>
                               /\ rankings[i].successful_simulations = 0
                               /\ \A k \in DOMAIN rankings[i].stats :
                                      rankings[i].stats[k] = None
                    /\ RankOf(b) < RankOf(a)

\* the first agent failed throughout and the second scored 0.0 on its
\* successful runs: both sort keys start with 0.0, and the second is first
C14_Witness ==
    /\ comparison.status = "completed"
    /\ AllRunsFailed("a1")
    /\ SomeRunCompleted("a2")
    /\ aggregated["a2"][1].stats.composite_score_mean[1].num = 0
    /\ RankOf("a2") = 1
    /\ RankOf("a1") = 2

(* ------------------------------ C15 ------------------------------------ *)

\* the issue occurs in the sequence
IssueIn(issue, issues) == \E i \in 1..Len(issues) : issues[i] = issue

\* the input of example scenario E: accuracy_mean 0.3, hangup_success_rate
\* 0.2, humanlike_mean 9, nothing else reported
ScenarioE ==
    /\ call.input.accuracy.mean = Some(Exact(3))
    /\ call.input.hangup_success_rate = Some(200)
    /\ call.input.humanlike.mean = Some(Exact(9))
    /\ call.input.accuracy.std = None
    /\ call.input.humanlike.std = None
    /\ call.input.avg_turns.std = None
    /\ call.input.latency.p99_mean = None
    /\ call.input.outcome_orientation.mean = None

\* C15: analyze_agent returns at most 3 issues, at most one per check,
\* critical before high before medium, and never returns an issue while
\* leaving out a fired issue of strictly higher severity; scenario E yields
\* exactly the two critical issues.
C15_TopThreeIssues ==
    (call.fn = "analyze_agent" /\ call.at = "done") =>
        LET out == call.output
            fired == FiredIssues(call.input)
        IN  /\ Len(out) <= 3
            /\ \A i, j \in 1..Len(out) :
                   i < j => /\ out[i].check # out[j].check
                            /\ SeverityOrder(out[i].severity)
                                   <= SeverityOrder(out[j].severity)
            /\ \A i \in 1..Len(out) : IssueIn(out[i], fired)
            /\ Len(fired) <= 3 => \A k \in 1..Len(fired) : IssueIn(fired[k], out)
            /\ \A k \in 1..Len(fired) :
                   ~IssueIn(fired[k], out) =>
                       \A i \in 1..Len(out) :
                           SeverityOrder(fired[k].severity)
                               >= SeverityOrder(out[i].severity)
            /\ ScenarioE =>
                   /\ Len(out) = 2
                   /\ {out[1], out[2]} = {Issue("hangup_rate", "critical"),
                                          Issue("accuracy", "critical")}

\* four checks fire: the critical accuracy issue moves ahead of the high
\* hangup issue, and the medium humanlike issue is the one left out
C15_Witness ==
    /\ call.fn = "analyze_agent" /\ call.at = "done"
    /\ FiredIssues(call.input) =
           << Issue("hangup_rate", "high"), Issue("accuracy", "critical"),
              Issue("latency", "high"), Issue("humanlike", "medium") >>
    /\ call.output =
           << Issue("accuracy", "critical"), Issue("hangup_rate", "high"),
              Issue("latency", "high") >>

(* --------------------------- C16 and C17 ------------------------------- *)

HealthOf(x) == CalculateHealthScore(x.pauses, x.interruptions, x.termination)

\* the inputs with one more agent delay, other pause, interruption or
\* termination issue than x, the rest as in x
OneMoreDetected(x) ==
    { [x EXCEPT !.pauses = Append(@, [type |-> "agent_delay"])],
      [x EXCEPT !.pauses = Append(@, [type |-> "short_pause"])],
      [x EXCEPT !.interruptions = Append(@, [type |-> "interruption"])],
      [x EXCEPT !.termination.issues = Append(@, "issue")] }

NothingDetected(x) ==
    x.pauses = << >> /\ x.interruptions = << >> /\ x.termination.issues = << >>

\* C16: the health score is in [0,100], is 100 when nothing is detected,
\* and does not increase when one of the counts increases, the others fixed.
C16_HealthScoreRangeMonotone ==
    (call.fn = "health_score" /\ call.at = "done") =>
        /\ call.output >= 0 /\ call.output <= 100
        /\ NothingDetected(call.input) => call.output = 100
        /\ \A y \in OneMoreDetected(call.input) : HealthOf(y) <= call.output

\* enough is detected for the floor to hold the score at 0
C16_Witness ==
    /\ call.fn = "health_score" /\ call.at = "done"
    /\ Len(call.input.pauses) = 3
    /\ Len(call.input.interruptions) = 3
    /\ Len(call.input.termination.issues) = 3
    /\ call.output = 0

AgentDelayCount(x) ==
    Cardinality({i \in 1..Len(x.pauses) : x.pauses[i].type = "agent_delay"})

\* C17: the health score is max(0, 100 - 15 per agent_delay pause - 5 per
\* other pause - 10 per interruption - 20 per termination issue).
C17_HealthScoreFormula ==
    (call.fn = "health_score" /\ call.at = "done") =>
        call.output =
            Max(0, 100 - 15 * AgentDelayCount(call.input)
                       - 5 * (Len(call.input.pauses) - AgentDelayCount(call.input))
                       - 10 * Len(call.input.interruptions)
                       - 20 * Len(call.input.termination.issues))

(* ------------------------------ C18 ------------------------------------ *)

\* adjacent runs k, k+1 end up in one returned segment / stay apart at
\* their own boundaries
MergedTogether(out, runs, k) ==
    \E i \in 1..Len(out) :
        TimeLeq(out[i].start, runs[k].start) /\ TimeLeq(runs[k + 1].end, out[i].end)

KeptApart(out, runs, k) ==
    \E i \in 1..Len(out) - 1 :
        out[i].end = runs[k].end /\ out[i + 1].start = runs[k + 1].start

\* C18: the returned segments are time-ordered and non-overlapping, two
\* adjacent runs are merged exactly when the gap between them, the
\* difference of their boundaries in doubles, is below 0.2 s, and no gap of
\* 0.2 s or more is merged away.
C18_SpeechSegmentsMerged ==
    (call.fn = "detect_speech_segments" /\ call.at = "done") =>
        LET out == call.output
            runs == call.runs
        IN  /\ \A i \in 1..Len(out) :
                   /\ TimeLeq(out[i].start, out[i].end)
                   /\ out[i].duration = TimeSub(out[i].end, out[i].start)
                   /\ \E k \in 1..Len(runs) : runs[k].start = out[i].start
                   /\ \E k \in 1..Len(runs) : runs[k].end = out[i].end
            /\ \A i \in 1..Len(out) - 1 : TimeLess(out[i].end, out[i + 1].start)
            /\ \A k \in 1..Len(runs) : \E i \in 1..Len(out) :
                   TimeLeq(out[i].start, runs[k].start) /\ TimeLeq(runs[k].end, out[i].end)
            /\ \A k \in 1..Len(runs) - 1 :
                   IF TimeLess(TimeSub(runs[k + 1].start, runs[k].end), TimeOf(200))
                   THEN MergedTogether(out, runs, k) /\ ~KeptApart(out, runs, k)
                   ELSE KeptApart(out, runs, k) /\ ~MergedTogether(out, runs, k)

\* example scenario A: [0-2 s] and [2.05-4 s] come back as [0-4 s]
C18_Witness ==
    /\ call.fn = "detect_speech_segments" /\ call.at = "done"
    /\ call.runs = << SegmentMs(0, 2000), SegmentMs(2050, 4000) >>
    /\ call.output = << SegmentMs(0, 4000) >>

(* ------------------------------- C19 ----------------------------------- *)

PausesDone == call.fn = "detect_pauses" /\ call.at = "done"

\* the minimum pause duration of the chosen sensitivity
SensitivityMinimum ==
    IF call.pause_sensitivity = "low" THEN TimeOf(6000)
    ELSE IF call.pause_sensitivity = "normal" THEN TimeOf(4000)
    ELSE TimeOf(2000)

\* the minimum the call works with: its min_pause_duration argument, or the
\* minimum of the chosen sensitivity when it has none
MinimumInForce == OrElse(call.min_pause_duration, SensitivityMinimum)

\* every returned pause lasts from its start_time to its end_time and at
\* least minimum, and the list is sorted by start time
PausesWellFormed(minimum) ==
    /\ \A i \in 1..Len(call.output) :
           /\ call.output[i].duration
                = TimeSub(call.output[i].end_time, call.output[i].start_time)
           /\ TimeLeq(minimum, call.output[i].duration)
    /\ \A i \in 1..Len(call.output) - 1 :
           TimeLeq(call.output[i].start_time, call.output[i + 1].start_time)

\* C19 as stated: every pause returned by detect_pauses has duration =
\* end_time - start_time and a duration of at least the minimum pause
\* duration of the chosen sensitivity (6.0 s low, 4.0 s normal, 2.0 s high),
\* and the returned list is sorted by start time.
C19_PausesWellFormed_AsStated == PausesDone => PausesWellFormed(SensitivityMinimum)

\* C19 amended: every pause returned by detect_pauses has duration =
\* end_time - start_time and a duration of at least the minimum in force,
\* which is the min_pause_duration argument when the call has one and
\* otherwise the minimum of the chosen sensitivity (6.0 s low, 4.0 s normal,
\* 2.0 s high), and the returned list is sorted by start time.
C19_PausesWellFormed == PausesDone => PausesWellFormed(MinimumInForce)

\* detect_pauses(0.4) under normal sensitivity returns an audio pause and a
\* transcript pause that both last less than 4.0 s
C19_Witness ==
    /\ PausesDone
    /\ call.pause_sensitivity = "normal"
    /\ call.min_pause_duration = Some(TimeOf(400))
    /\ \E i, j \in 1..Len(call.output) :
           /\ call.output[i].type = "short_pause"
           /\ call.output[j].type \in {"agent_delay", "conversation_pause"}
           /\ TimeLess(call.output[i].duration, TimeOf(4000))
           /\ TimeLess(call.output[j].duration, TimeOf(4000))

(* ------------------------------- C20 ----------------------------------- *)

\* scenario B: normal sensitivity with its minimum of 4.0 s in force
ScenarioB ==
    /\ PausesDone
    /\ call.pause_sensitivity = "normal"
    /\ MinimumInForce = TimeOf(4000)
    /\ call.speech_segments = << SegmentMs(0, 2000), SegmentMs(6500, 8000) >>
    /\ call.turns = << >>

\* C20 as stated: under normal sensitivity the speech segments [0-2 s] and
\* [6.5-8 s] yield exactly one pause, start 2 s, end 6.5 s, duration 4.5 s,
\* of type medium_pause and severity medium.
C20_ScenarioB_AsStated ==
    ScenarioB =>
        call.output = << [start_time |-> TimeOf(2000), end_time |-> TimeOf(6500),
                          duration |-> TimeOf(4500),
                          type |-> "medium_pause", severity |-> "medium"] >>

\* C20 amended: under normal sensitivity the speech segments [0-2 s] and
\* [6.5-8 s] yield exactly one pause, start 2 s, end 6.5 s, duration 4.5 s;
\* 4.5 s is not above the medium threshold of 5.0 s, so its type is
\* short_pause and its severity low.
C20_ScenarioB ==
    ScenarioB =>
        call.output = << [start_time |-> TimeOf(2000), end_time |-> TimeOf(6500),
                          duration |-> TimeOf(4500),
                          type |-> "short_pause", severity |-> "low"] >>

\* scenario B on audio whose energy varies in the gap
C20_Witness == ScenarioB /\ call.energy_drop[1] /\ Len(call.output) = 1

(* ------------------------------- C21 ----------------------------------- *)

DuplicatePauses(p, q) ==
    /\ TimeLess(TimeAbs(TimeSub(p.start_time, q.start_time)), TimeOf(500))
    /\ TimeLess(TimeAbs(TimeSub(p.duration, q.duration)), TimeOf(500))

DuplicateInterruptions(p, q) ==
    TimeLess(TimeAbs(TimeSub(p.time, q.time)), TimeOf(100))

DedupDoneTwice ==
    /\ call.fn \in {"_deduplicate_pauses", "_deduplicate_interruptions"}
    /\ call.at = "twice"

\* C21: de-duplication is idempotent for every input list: the pause pass
\* (starts within 0.5 s and durations within 0.5 s) and the interruption
\* pass (times within 0.1 s) return their own output unchanged, and the
\* output holds no two entries that are duplicates of each other.
C21_DedupIdempotent ==
    DedupDoneTwice =>
        /\ call.twice = call.once
        /\ \A i, j \in 1..Len(call.once) :
               i # j =>
                   IF call.fn = "_deduplicate_pauses"
                   THEN ~DuplicatePauses(call.once[i], call.once[j])
                   ELSE ~DuplicateInterruptions(call.once[i], call.once[j])

\* a pause was dropped as the duplicate of the first kept pause although it
\* is no duplicate of the pause kept just before it
C21_Witness ==
    /\ DedupDoneTwice
    /\ call.fn = "_deduplicate_pauses"
    /\ Len(call.input) = 3 /\ Len(call.once) = 2
    /\ DuplicatePauses(call.input[3], call.input[1])
    /\ ~DuplicatePauses(call.input[3], call.input[2])

(* ------------------------------- C22 ----------------------------------- *)

\* the judge's call of task t failed inside the validator
JudgeCallFails(t) ==
    /\ tpc[t] = "judge"
    /\ CompleteRun(t, SimulationResult(tsim[t]),
                   ValidateSimulatedTranscript(tsim[t].transcript,
                       [kind |-> "failed", accuracy |-> None, humanlike |-> None,
                        outcome |-> None]))
    /\ TaskFrame

\* C22: whenever the quality judge fails (its call fails inside the
\* validator, or an exception escapes the validator), the run is recorded as
\* completed and its accuracy, humanlike and outcome scores are all the
\* neutral default 5.0 on the 0-10 scale.
C22_JudgeFailureDefaults ==
    [][\A t \in Tasks :
          (JudgeCallFails(t) \/ ValidatorRaises(t)) =>
              /\ run'[t].status = "completed"
              /\ run'[t].overall_accuracy = Some(5)
              /\ run'[t].humanlike_rating = Some(5)
              /\ run'[t].outcome_orientation = Some(5)]_vars

(* ------------------------------- C23 ----------------------------------- *)

TerminationDone == call.fn = "detect_call_termination_issues" /\ call.at = "done"

HasIssue(text) == \E i \in 1..Len(call.output.issues) : call.output.issues[i] = text

LastSegment == call.speech_segments[Len(call.speech_segments)]

SilenceAtEnd == TimeSub(call.duration, LastSegment.end)

\* t is above / below so many ms, as doubles compare
Above(t, ms) == TimeLess(TimeOf(ms), t)

Below(t, ms) == TimeLess(t, TimeOf(ms))

\* what C23 and its amended form agree on: the silence issues, and no issue
\* without speech segments
SilenceIssuesAsClaimed ==
    IF call.speech_segments = << >>
    THEN call.output.issues = << >> /\ ~call.output.abrupt_ending
    ELSE /\ HasIssue("Very long silence at end") <=> Above(SilenceAtEnd, 10000)
         /\ HasIssue("Long silence at end")
                <=> (Above(SilenceAtEnd, 5000) /\ ~Above(SilenceAtEnd, 10000))
         /\ HasIssue("Very abrupt audio ending - possible cutoff")
                <=> Below(SilenceAtEnd, 200)
         /\ Below(SilenceAtEnd, 200) => call.output.abrupt_ending

\* C23 as stated: with silence_at_end = duration - end of the last speech
\* segment, a very-long-silence issue when it is > 10 s, a long-silence
\* issue when > 5 s (and not > 10 s), abrupt_ending and an issue when
\* < 0.2 s, and an additional abrupt-ending issue whenever the last speech
\* segment is shorter than 0.5 s; no audio issue without speech segments.
C23_TerminationAsStated ==
    TerminationDone =>
        /\ SilenceIssuesAsClaimed
        /\ call.speech_segments # << >> =>
               (HasIssue("Last speech segment very short - possible cutoff")
                    <=> Below(LastSegment.duration, 500))

\* C23 amended: the same, but the additional abrupt-ending issue is added
\* (and abrupt_ending set) exactly when the last speech segment is shorter
\* than 0.5 s and silence_at_end is below 1.0 s; each issue is added once.
C23_Termination ==
    TerminationDone =>
        /\ SilenceIssuesAsClaimed
        /\ call.speech_segments # << >> =>
               /\ HasIssue("Last speech segment very short - possible cutoff")
                      <=> (Below(LastSegment.duration, 500) /\ Below(SilenceAtEnd, 1000))
               /\ call.output.abrupt_ending
                      <=> (Below(SilenceAtEnd, 200)
                           \/ (/\ Below(LastSegment.duration, 500)
                               /\ Below(SilenceAtEnd, 1000)))
        /\ \A i, j \in 1..Len(call.output.issues) :
               call.output.issues[i] = call.output.issues[j] => i = j

\* a last segment of 0.3 s cut off 0.1 s before the end: both abrupt issues
C23_Witness ==
    /\ TerminationDone
    /\ call.speech_segments # << >>
    /\ LastSegment.duration.ms = 300 /\ SilenceAtEnd.ms = 199
    /\ Len(call.output.issues) = 2
    /\ call.output.session_ended_properly

(* ------------------------------- C24 ----------------------------------- *)

RunRowsOf(a) == {r \in call.runs : r[2] = a}

AggregateRowsOf(a) == {r \in call.aggregates : r[2] = a}

\* every execution that was requested has finished, and one was requested
ExecutionsFinished ==
    /\ Serving
    /\ call.exec[1].at = "done"
    /\ \A e \in Executions : call.exec[e].at \in {"idle", "done"}

\* C24: after any sequence of execute requests on a comparison (a second
\* request issued while or after a first execution runs included), the
\* comparison owns exactly one aggregate record per requested agent and
\* exactly num_simulations run records per agent.
C24_OneAggregatePerAgentAfterExecutes ==
    ExecutionsFinished =>
        \A a \in Agents :
            /\ Cardinality(AggregateRowsOf(a)) = 1
            /\ Cardinality(RunRowsOf(a)) = NumSimulations

(* ------------------------------- C25 ----------------------------------- *)

\* the limit the simulator ran the conversations with
EffectiveMaxTurns == OrElse(advanced_settings.max_conversation_turns, SettingsMaxTurns)

BelowEffectiveLimit(t) == run[t].total_turns[1] < EffectiveMaxTurns

\* C25: when the comparison supplies a max_conversation_turns override, the
\* hangup bonus of every completed run and the agent's hangup_success_rate
\* are judged against the limit the simulator ran the conversation with.
C25_OverrideLimitConsistent ==
    advanced_settings.max_conversation_turns # None =>
        /\ \A t \in Tasks :
              tpc[t] = "returned" =>
                  ret[t][1].composite_score =
                      Some(CompositeWithBonus(run[t],
                               IF BelowEffectiveLimit(t) THEN 10 ELSE 0))
        /\ \A a \in Agents :
              (aggregated[a] # None /\ aggregated[a][1].successful_simulations > 0) =>
                  aggregated[a][1].stats.hangup_success_rate =
                      Some(RoundedRate(Cardinality({t \in CompletedRunsOf(a) :
                                                       BelowEffectiveLimit(t)}),
                                       Cardinality(CompletedRunsOf(a))))

(* ------------------------------- C26 ----------------------------------- *)

\* the step ended the conversation with hangup_logic_triggered
HangsUp(s2) == s2.at = "returned" /\ s2.hangup_reason = "hangup_logic_triggered"

\* C26: the hangup decision is read from the hangup field whenever the
\* oracle's reply parses as a JSON object ({"hangup": "No"} means continue
\* even if the text holds a keyword), and for every reply that does not
\* yield such a JSON object it is the keyword match on yes / hang up /
\* end call / terminate.
C26_HangupDecision ==
    [][(sim.s.at = "hangup" /\ sim.s.hangup_prompt) =>
          LET reply == sim'.log[Len(sim'.log)].reply
          IN  /\ reply.kind = "json_object" =>
                    (HangsUp(sim'.s) <=> reply.value \in {"yes", "true", "1"})
              /\ reply.kind \in {"json_other", "text"} =>
                    (HangsUp(sim'.s) <=> reply.keyword)]_vars

(* ------------------------------- C27 ----------------------------------- *)

\* the transcript without its welcome turn
AfterWelcome(transcript) ==
    IF transcript # << >> /\ transcript[1].role = "AGENT"
    THEN Tail(transcript) ELSE transcript

\* C27: in every result simulate returns, the transcript after the optional
\* welcome turn is a sequence of (USER, AGENT) pairs in order: a null user
\* message appends nothing and no agent or hangup-oracle call follows it,
\* every USER turn is followed by exactly one AGENT turn carrying a latency,
\* and total_turns = number of USER turns = number of latencies <= max_turns.
C27_TranscriptPairs ==
    sim.s.at = "returned" =>
        LET result == SimulationResult(sim.s)
            body == AfterWelcome(result.transcript)
            pairs == Len(body) \div 2
            appended == Cardinality({i \in 1..Len(sim.log) :
                                        sim.log[i].call = "user" /\ ~sim.log[i].null})
        IN  /\ Len(body) = 2 * pairs
            /\ \A k \in 1..pairs :
                   /\ body[2 * k - 1].role = "USER"
                   /\ body[2 * k].role = "AGENT"
                   /\ "latency_ms" \in DOMAIN body[2 * k]
            /\ \A i \in 1..Len(sim.log) : NullAt(i) => i = Len(sim.log)
            /\ pairs = appended
            /\ result.total_turns = pairs
            /\ Len(result.latencies) = pairs
            /\ result.total_turns <= sim.s.max_turns

\* after a welcome turn and one full pair the user generator answered null
C27_Witness ==
    /\ sim.s.at = "returned"
    /\ sim.s.hangup_reason = "user_simulator_ended"
    /\ Len(sim.s.transcript) = 3
    /\ sim.s.transcript[1].role = "AGENT"
    /\ sim.s.transcript[2].role = "USER"
    /\ Len(sim.s.latencies) = 1

(* ------------------------------- C28 ----------------------------------- *)

\* what the three methods of detect_pauses found, before de-duplication
PrimaryGapPauses ==
    GapPauses(ThresholdsInForce(call.pause_sensitivity, call.min_pause_duration),
              call.speech_segments, 1)

EnergyPauses ==
    DetectEnhancedPauses(ThresholdsInForce(call.pause_sensitivity,
                                           call.min_pause_duration),
                         call.speech_segments, call.energy_drop, 1)

\* C28: every enhanced_speech_gap pause of the energy method has the start
\* and the duration of a primary gap pause, so de-duplication, which keeps
\* the first-seen entry, removes it: the list detect_pauses returns holds no
\* pause of type enhanced_speech_gap.
C28_NoEnhancedPauseReturned ==
    PausesDone =>
        /\ \A i \in 1..Len(EnergyPauses) :
              \E j \in 1..Len(PrimaryGapPauses) :
                  /\ PrimaryGapPauses[j].start_time = EnergyPauses[i].start_time
                  /\ PrimaryGapPauses[j].duration = EnergyPauses[i].duration
        /\ \A i \in 1..Len(call.output) : call.output[i].type # "enhanced_speech_gap"

\* the energy method reported two gaps, and two pauses were returned
C28_Witness ==
    /\ PausesDone
    /\ Len(EnergyPauses) = 2
    /\ Len(call.output) = 2

(* ------------------------------- C29 ----------------------------------- *)

InterruptionsDone == call.fn = "_detect_audio_interruptions" /\ call.at = "done"

\* C29: segment merging removes every gap below 0.2 s, so every audio
\* interruption (audio_overlap) has gap_duration in [0.2 s, 0.3 s) and
\* severity medium; the audio method never emits severity high.
C29_AudioInterruptionsMedium ==
    InterruptionsDone =>
        /\ \A i \in 1..Len(call.speech_segments) - 1 :
               TimeLeq(TimeOf(200), TimeSub(call.speech_segments[i + 1].start,
                                            call.speech_segments[i].end))
        /\ \A i \in 1..Len(call.output) :
               /\ call.output[i].type = "audio_overlap"
               /\ TimeLeq(TimeOf(200), call.output[i].gap_duration)
               /\ TimeLess(call.output[i].gap_duration, TimeOf(300))
               /\ call.output[i].severity = "medium"

\* a mask holding a gap that was merged away and a gap that was kept and
\* reported as an interruption
C29_Witness ==
    /\ InterruptionsDone
    /\ call.mask # << >>
    /\ Len(FindSpeechRuns(FrameTimes(Len(call.mask)), call.mask)) = 3
    /\ Len(call.speech_segments) = 2
    /\ Len(call.output) = 1

(* ------------------------------- C30 ----------------------------------- *)

\* the judge of task t answered with the scores of reply
JudgeScores(t, reply) ==
    /\ tpc[t] = "judge"
    /\ reply.kind = "scores"
    /\ CompleteRun(t, SimulationResult(tsim[t]),
                   ValidateSimulatedTranscript(tsim[t].transcript, reply))
    /\ TaskFrame

\* C30: validate_simulated_transcript reports overall_accuracy = judge
\* accuracy / 10 for every judge accuracy in 0..10, 0 included, so a judged
\* accuracy of 0 enters the composite score as a present metric of value 0.
C30_ZeroAccuracyIsPresent ==
    [][\A t \in Tasks : \A reply \in JudgeReplies(AgentOf(t)) :
          (JudgeScores(t, reply) /\ reply.accuracy # None) =>
              /\ run'[t].overall_accuracy = reply.accuracy
              /\ "overall_accuracy" \in PresentMetrics(run'[t])]_vars

=============================================================================
